---- MODULE Spec2Model ----
(***************************************************************************)
(* Verification model of the structure-template toolchain:                 *)
(*   tools/structgen/compile.py  - tag codec, block-state grammar,         *)
(*                                 transform engine, plan validator,       *)
(*                                 structure compiler.                     *)
(* Python values are tuples <<kind, payload>>; in the codec a Python str   *)
(* is the sequence of its code points, a bytes object the sequence of its  *)
(* bytes, a dict the sequence of its <<key, value>> items in insertion     *)
(* order.  In the grammar, the transforms and the compiler a block-state   *)
(* str is the sequence of its tokens, spelled out as code points (Text)    *)
(* before it reaches the codec.  A call that raises yields                 *)
(* [err |-> message].                                                      *)
(***************************************************************************)
EXTENDS Integers, Sequences, FiniteSets, TLC

VARIABLES
    pc,        \* position of the running command
    tree,      \* codec: the tag tree handed to write_nbt
    file,      \* codec: bytes of the file on disk
    fuzz,      \* codec: how the file was produced ("written", "raw", "truncated", "patched")
    res,       \* codec: outcome of read_nbt
    cell,      \* transform: [size, pos, nbr, dir, state] of the cell being transformed
    cell0,     \* transform: the cell before any transform
    applied,   \* transform: the <<rot, mirror>> pairs applied so far
    plans,     \* compiler: the plan documents under the plans root, in sorted path order
    argv,      \* compiler: [biomes, rot, mirror] of the invocation
    pi,        \* compiler: index of the plan compile_all is at
    bi,        \* compiler: index of the biome compile_all is at
    compiled,  \* compiler: the counter of compile_all
    built,     \* compiler: what the last _build_structure returned
    files,     \* compiler: the output directory, path -> bytes
    report,    \* compiler: the lines printed so far
    exit_code, \* compiler: what main returned, -1 while it runs
    text,      \* grammar: the block-state string at hand
    how,       \* grammar: where text came from ("given", "canonical", "shuffled")
    parse_out, \* grammar: what parse_block_state returned for text
    legacy,    \* grammar: what the converter's _parse_block_state returned for text
    canon,     \* grammar: canonical_state of parsed
    prev,      \* grammar: canon of the string text was derived from
    moved,     \* grammar: [rot, mirror, out] of the last transform_state(text, rot, mirror)
    region,    \* region reader: [len, data] of the region file on disk
    slot,      \* region reader: <<cx, cz>> of the chunk asked for
    chunk,     \* region reader: what each copy of the reader returned
    section,   \* palette storage: [palette, data] of the Section at hand
    packed,    \* palette storage: the values the data array was packed from
    got,       \* palette storage: [op, at, val] of the call made on the section
    history_limit, \* job queue: JobQueue._history_limit
    records,   \* job queue: JobQueue._records, oldest first
    jobq,      \* job queue: JobQueue._queue, [id, fn] items
    worker,    \* job queue: where the worker thread is, and the job it holds
    caller,    \* job queue: where the enqueue call in progress is
    next_id,   \* job queue: the next id uuid4 draws
    reply,     \* job queue: the last response of GET /api/jobs[/{id}]
    issued,    \* admin API: the session cookies the server has signed
    token_seq, \* admin API: how many tokens secrets.token_urlsafe has drawn
    retired,   \* admin API: the tokens of sessions that were logged out or logged in again
    resp       \* admin API: [req, session, provided, code] of the last request answered

codecVars == <<tree, file, fuzz, res>>
xfVars == <<cell, cell0, applied>>
compVars == <<plans, argv, pi, bi, compiled, built, files, report, exit_code>>
gramVars == <<text, how, parse_out, legacy, canon, prev, moved>>
regionVars == <<region, slot, chunk>>
sectionVars == <<section, packed, got>>
jobVars == <<history_limit, records, jobq, worker, caller, next_id, reply>>
adminVars == <<issued, token_seq, retired, resp>>
vars == <<pc, codecVars, xfVars, compVars, gramVars, regionVars, sectionVars, jobVars, adminVars>>

None == <<"None", <<>>>>
Pending == [pending |-> TRUE]

Err(e) == [err |-> e]
IsErr(r) == "err" \in DOMAIN r

\* an exception raised by the first step propagates; otherwise the rest runs
Then(r, rest(_)) == IF IsErr(r) THEN r ELSE rest(r)
AndThen(first, next) == IF IsErr(first) THEN first ELSE next
\* a local variable: the value is computed once and bound
With(v, body(_)) == body(v)

\* ------------------------------------------------------------------ bounds
MaxMembers == 2
MaxFuzzPos == 14
MaxSide == 2
MaxRepeat == 4
MaxBlocks == 2
MaxPlans == 2
LongStrLen == 32768

\* ------------------------------------------------------- program constants
TAG_END == 0
TAG_BYTE == 1
TAG_SHORT == 2
TAG_INT == 3
TAG_LONG == 4
TAG_FLOAT == 5
TAG_DOUBLE == 6
TAG_BYTE_ARRAY == 7
TAG_STRING == 8
TAG_LIST == 9
TAG_COMPOUND == 10
TAG_INT_ARRAY == 11
TAG_LONG_ARRAY == 12

\* ------------------------------------------------------------ Python values
\* <<kind, payload>>; an NbtList is <<"NbtList", items, inner_tag>>
PyKind(x) == x[1]
PyVal(x) == x[2]
InnerTag(x) == x[3]
PyBool(b) == <<"bool", b>>
PyInt(n) == <<"int", n>>
PyFloat(img) == <<"float", img>>   \* the 8-byte IEEE-754 image of the double
PyStr(s) == <<"str", s>>
PyBytes(b) == <<"bytes", b>>
PyList(xs) == <<"list", xs>>
PyDict(items) == <<"dict", items>>
NbtList(inner, xs) == <<"NbtList", xs, inner>>

DictKeys(d) == {PyVal(d)[i][1] : i \in 1..Len(PyVal(d))}
DictGet(d, key) == PyVal(d)[CHOOSE i \in 1..Len(PyVal(d)) : PyVal(d)[i][1] = key][2]
\* out[name] = value: an existing key keeps its position and takes the new value
DictPut(items, key, value) ==
    IF \E i \in 1..Len(items) : items[i][1] = key
    THEN [i \in 1..Len(items) |-> IF items[i][1] = key THEN <<key, value>> ELSE items[i]]
    ELSE Append(items, <<key, value>>)

\* Python ==.  bool is an int subclass (True == 1); a dataclass compares equal
\* only to its own class, so NbtList(...) != [...]; dicts compare as mappings.
\* The doubles drawn by this model are non-integral and not NaN, so a float
\* equals only a float with the same image.
RECURSIVE PyEq(_, _)
PyEq(a, b) ==
    CASE PyKind(a) \in {"bool", "int"} /\ PyKind(b) \in {"bool", "int"} ->
            LET num(x) == IF PyKind(x) = "bool" THEN (IF PyVal(x) THEN 1 ELSE 0) ELSE PyVal(x)
            IN  num(a) = num(b)
      [] PyKind(a) # PyKind(b) -> FALSE
      [] PyKind(a) \in {"float", "float32", "int64", "str", "bytes", "None"} -> a = b
      [] PyKind(a) = "list" ->
            /\ Len(PyVal(a)) = Len(PyVal(b))
            /\ \A i \in 1..Len(PyVal(a)) : PyEq(PyVal(a)[i], PyVal(b)[i])
      [] PyKind(a) = "NbtList" ->
            /\ InnerTag(a) = InnerTag(b)
            /\ Len(PyVal(a)) = Len(PyVal(b))
            /\ \A i \in 1..Len(PyVal(a)) : PyEq(PyVal(a)[i], PyVal(b)[i])
      [] PyKind(a) = "dict" ->
            /\ DictKeys(a) = DictKeys(b)
            /\ \A key \in DictKeys(a) : PyEq(DictGet(a, key), DictGet(b, key))
      [] OTHER -> FALSE

\* ------------------------------------------------------------ struct / utf-8
\* struct.pack(">i", v): 4 bytes, big-endian two's complement
enc_i32(v) ==
    LET u == IF v < 0 THEN (v + 1073741824) + 1073741824 ELSE v
        top == u \div 16777216
    IN  << IF v < 0 THEN top + 128 ELSE top,
           (u \div 65536) % 256, (u \div 256) % 256, u % 256 >>

\* struct.unpack(">i", b)
dec_i32(b) ==
    LET low == (b[2] * 65536) + (b[3] * 256) + b[4]
    IN  IF b[1] >= 128
        THEN ((((b[1] - 128) * 16777216) + low) - 1073741824) - 1073741824
        ELSE (b[1] * 16777216) + low

\* struct.unpack(">h", b)
dec_i16(b) ==
    LET u == (b[1] * 256) + b[2]
    IN  IF u >= 32768 THEN u - 65536 ELSE u

\* struct.unpack(">b", b)
dec_i8(b) == IF b[1] >= 128 THEN b[1] - 256 ELSE b[1]

\* str.encode("utf-8") of one code point
Utf8Char(cp) ==
    IF cp < 128 THEN <<cp>>
    ELSE IF cp < 2048 THEN <<192 + (cp \div 64), 128 + (cp % 64)>>
    ELSE IF cp < 65536
         THEN <<224 + (cp \div 4096), 128 + ((cp \div 64) % 64), 128 + (cp % 64)>>
    ELSE <<240 + (cp \div 262144), 128 + ((cp \div 4096) % 64),
           128 + ((cp \div 64) % 64), 128 + (cp % 64)>>

RECURSIVE Utf8Encode(_)
Utf8Encode(s) ==
    IF Len(s) = 0 THEN <<>>
    ELSE IF \A i \in 1..Len(s) : s[i] < 128 THEN s
    ELSE Utf8Char(Head(s)) \o Utf8Encode(Tail(s))

IsCont(b, i) == i <= Len(b) /\ b[i] >= 128 /\ b[i] <= 191

\* bytes.decode("utf-8", errors="strict")
RECURSIVE Utf8DecodeFrom(_, _, _)
Utf8DecodeFrom(b, i, acc) ==
    IF i > Len(b) THEN [val |-> acc]
    ELSE LET c == b[i] IN
      IF c < 128 THEN Utf8DecodeFrom(b, i + 1, Append(acc, c))
      ELSE IF c >= 194 /\ c <= 223 /\ IsCont(b, i + 1)
        THEN Utf8DecodeFrom(b, i + 2, Append(acc, ((c - 192) * 64) + (b[i + 1] - 128)))
      ELSE IF c >= 224 /\ c <= 239 /\ IsCont(b, i + 1) /\ IsCont(b, i + 2)
        THEN LET cp == ((c - 224) * 4096) + ((b[i + 1] - 128) * 64) + (b[i + 2] - 128)
             IN  IF cp < 2048 \/ (cp >= 55296 /\ cp <= 57343)
                 THEN Err("UnicodeDecodeError")
                 ELSE Utf8DecodeFrom(b, i + 3, Append(acc, cp))
      ELSE IF c >= 240 /\ c <= 244 /\ IsCont(b, i + 1) /\ IsCont(b, i + 2) /\ IsCont(b, i + 3)
        THEN LET cp == ((c - 240) * 262144) + ((b[i + 1] - 128) * 4096)
                       + ((b[i + 2] - 128) * 64) + (b[i + 3] - 128)
             IN  IF cp < 65536 \/ cp > 1114111
                 THEN Err("UnicodeDecodeError")
                 ELSE Utf8DecodeFrom(b, i + 4, Append(acc, cp))
      ELSE Err("UnicodeDecodeError")

Utf8Decode(b) ==
    IF \A i \in 1..Len(b) : b[i] < 128 THEN [val |-> b] ELSE Utf8DecodeFrom(b, 1, <<>>)

\* ------------------------------------------------------------------ encoder
\* _enc_string: ">H" length prefix, at most 65535 bytes
enc_string(s) ==
    With(Utf8Encode(s), LAMBDA b :
        IF Len(b) > 65535 THEN Err("NBT string too long")
        ELSE [val |-> <<Len(b) \div 256, Len(b) % 256>> \o b])

RECURSIVE tag_type(_)
tag_type(value) ==
    CASE PyKind(value) = "bool" -> [tag |-> TAG_BYTE]
      [] PyKind(value) = "int" -> [tag |-> TAG_INT]
      [] PyKind(value) = "float" -> [tag |-> TAG_DOUBLE]
      [] PyKind(value) = "str" -> [tag |-> TAG_STRING]
      [] PyKind(value) = "bytes" -> [tag |-> TAG_BYTE_ARRAY]
      [] PyKind(value) = "NbtList" -> [tag |-> TAG_LIST]
      [] PyKind(value) = "dict" -> [tag |-> TAG_COMPOUND]
      [] PyKind(value) = "list" ->
            IF Len(PyVal(value)) = 0 THEN [tag |-> TAG_LIST]
            ELSE LET inner == tag_type(PyVal(value)[1])
                     bad == {i \in 1..Len(PyVal(value)) :
                                IsErr(tag_type(PyVal(value)[i])) \/ tag_type(PyVal(value)[i]) # inner}
                 IN  IF IsErr(inner) THEN inner
                     ELSE IF bad = {} THEN [tag |-> TAG_LIST]
                     ELSE LET i == CHOOSE j \in bad : \A m \in bad : j <= m
                          IN  IF IsErr(tag_type(PyVal(value)[i])) THEN tag_type(PyVal(value)[i])
                              ELSE Err("NBT list values must be homogeneous")
      [] OTHER -> Err("unsupported Python type for NBT write")

RECURSIVE write_payload(_), write_members(_, _, _), write_items(_, _, _, _)

\* the loop of the TAG_COMPOUND branch: one tag byte, name and payload per item
write_members(items, i, acc) ==
    IF i > Len(items) THEN [tag |-> TAG_COMPOUND, val |-> acc \o <<TAG_END>>]
    ELSE Then(write_payload(items[i][2]), LAMBDA w :
         Then(enc_string(items[i][1]), LAMBDA name :
              write_members(items, i + 1, acc \o <<w.tag>> \o name.val \o w.val)))

\* the loop of the TAG_LIST branch: payloads only, each item checked against inner
write_items(items, i, inner, acc) ==
    IF i > Len(items) THEN [tag |-> TAG_LIST, val |-> <<inner>> \o enc_i32(Len(items)) \o acc]
    ELSE Then(write_payload(items[i]), LAMBDA w :
              IF w.tag # inner THEN Err("NBT list item type mismatch")
              ELSE write_items(items, i + 1, inner, acc \o w.val))

write_payload(value) ==
    Then(tag_type(value), LAMBDA tt :
         CASE tt.tag = TAG_BYTE -> [tag |-> TAG_BYTE, val |-> <<IF PyVal(value) THEN 1 ELSE 0>>]
           [] tt.tag = TAG_INT -> [tag |-> TAG_INT, val |-> enc_i32(PyVal(value))]
           [] tt.tag = TAG_DOUBLE -> [tag |-> TAG_DOUBLE, val |-> PyVal(value)]
           [] tt.tag = TAG_STRING ->
                Then(enc_string(PyVal(value)), LAMBDA e : [tag |-> TAG_STRING, val |-> e.val])
           [] tt.tag = TAG_BYTE_ARRAY ->
                [tag |-> TAG_BYTE_ARRAY, val |-> enc_i32(Len(PyVal(value))) \o PyVal(value)]
           [] tt.tag = TAG_COMPOUND -> write_members(PyVal(value), 1, <<>>)
           [] tt.tag = TAG_LIST ->
                write_items(PyVal(value), 1,
                            IF PyKind(value) = "NbtList" THEN InnerTag(value)
                            ELSE IF Len(PyVal(value)) > 0 THEN tag_type(PyVal(value)[1]).tag
                            ELSE TAG_END,
                            <<>>)
           [] OTHER -> Err("unsupported write tag"))

\* gzip container, reduced to its framing: the two magic bytes, the stored
\* payload and the ISIZE trailer (length mod 256 kept as one byte)
GzipCompress(raw) == <<31, 139>> \o raw \o <<Len(raw) % 256>>

\* gzip.decompress: OSError (BadGzipFile) on a wrong magic or trailer,
\* EOFError when the stream ends before the trailer
GzipDecompress(b) ==
    IF Len(b) = 0 THEN [val |-> <<>>]
    ELSE IF Len(b) < 2 \/ b[1] # 31 \/ b[2] # 139 THEN Err("OSError")
    ELSE IF Len(b) < 3 THEN Err("EOFError")
    ELSE LET body == SubSeq(b, 3, Len(b) - 1)
         IN  IF b[Len(b)] # Len(body) % 256 THEN Err("OSError") ELSE [val |-> body]

\* write_nbt up to the bytes handed to path.write_bytes
write_nbt(root) ==
    Then(write_payload(root), LAMBDA w :
         IF w.tag # TAG_COMPOUND THEN Err("root NBT payload must be compound")
         ELSE [val |-> GzipCompress(<<TAG_COMPOUND>> \o enc_string(<<>>).val \o w.val)])

\* ------------------------------------------------------------------ decoder
\* A successful read is [val, o, met]: the value, the new offset buf.o and the
\* history of what the decoder has met so far: <<"kind", byte>> for every
\* tag-kind byte and <<"len", n>> for every declared length.
Buf_read(b, o, n) ==
    IF o + n > Len(b) THEN Err("unexpected EOF while reading NBT")
    ELSE [val |-> SubSeq(b, o + 1, o + n), o |-> o + n]

read_string(b, o, met) ==
    LET h == Buf_read(b, o, 2) IN
    IF IsErr(h) THEN h
    ELSE LET ln == dec_i16(h.val) IN
         IF ln < 0 THEN Err("negative string length in NBT")
         ELSE LET body == Buf_read(b, h.o, ln) IN
              IF IsErr(body) THEN body
              ELSE LET s == Utf8Decode(body.val) IN
                   IF IsErr(s) THEN s
                   ELSE [val |-> PyStr(s.val), o |-> body.o,
                         met |-> met \cup {<<"len", ln>>}]

\* struct.unpack(">q", b): a Python int; one outside the 32-bit range is kept
\* as its 8-byte image
dec_i64(b) ==
    LET ext == IF b[5] >= 128 THEN 255 ELSE 0
    IN  IF \A i \in 1..4 : b[i] = ext
        THEN PyInt(dec_i32(SubSeq(b, 5, 8)))
        ELSE <<"int64", b>>

RECURSIVE read_payload(_, _, _, _), read_list_items(_, _, _, _, _, _),
          read_compound(_, _, _, _), read_array(_, _, _, _, _, _)

\* [_read_payload(buf, inner) for _ in range(ln)]
read_list_items(b, o, inner, n, acc, met) ==
    IF n = 0 THEN [val |-> NbtList(inner, acc), o |-> o, met |-> met]
    ELSE LET r == read_payload(b, o, inner, met)
         IN  IF IsErr(r) THEN r
             ELSE read_list_items(b, r.o, inner, n - 1, Append(acc, r.val), r.met)

\* the while-loop of the TAG_COMPOUND branch
read_compound(b, o, out, met) ==
    LET t == Buf_read(b, o, 1) IN
    IF IsErr(t) THEN t
    ELSE IF t.val[1] = TAG_END
         THEN [val |-> PyDict(out), o |-> t.o, met |-> met \cup {<<"kind", TAG_END>>}]
    ELSE LET name == read_string(b, t.o, met \cup {<<"kind", t.val[1]>>}) IN
         IF IsErr(name) THEN name
         ELSE LET r == read_payload(b, name.o, t.val[1], name.met)
              IN  IF IsErr(r) THEN r
                  ELSE read_compound(b, r.o, DictPut(out, PyVal(name.val), r.val), r.met)

\* [buf.read_i32() for _ in range(ln)] and [buf.read_i64() for _ in range(ln)]
read_array(b, o, width, n, acc, met) ==
    IF n = 0 THEN [val |-> PyList(acc), o |-> o, met |-> met]
    ELSE LET r == Buf_read(b, o, width)
         IN  IF IsErr(r) THEN r
             ELSE read_array(b, r.o, width, n - 1,
                             Append(acc, IF width = 4 THEN PyInt(dec_i32(r.val))
                                         ELSE dec_i64(r.val)),
                             met)

read_payload(b, o, tag, met) ==
    LET fixed(n, conv(_)) ==
            LET r == Buf_read(b, o, n)
            IN  IF IsErr(r) THEN r ELSE [val |-> conv(r.val), o |-> r.o, met |-> met]
        i8(x) == PyInt(dec_i8(x))
        i16(x) == PyInt(dec_i16(x))
        i32(x) == PyInt(dec_i32(x))
        f32(x) == <<"float32", x>>
        counted(msg, body(_, _, _)) ==
            LET h == Buf_read(b, o, 4) IN
            IF IsErr(h) THEN h
            ELSE LET ln == dec_i32(h.val) IN
                 IF ln < 0 THEN Err(msg) ELSE body(h.o, ln, met \cup {<<"len", ln>>})
        bytes_body(o2, ln, m) ==
            LET r == Buf_read(b, o2, ln)
            IN  IF IsErr(r) THEN r ELSE [val |-> PyBytes(r.val), o |-> r.o, met |-> m]
        ints_body(o2, ln, m) == read_array(b, o2, 4, ln, <<>>, m)
        longs_body(o2, ln, m) == read_array(b, o2, 8, ln, <<>>, m)
    IN
    CASE tag = TAG_BYTE -> fixed(1, i8)
      [] tag = TAG_SHORT -> fixed(2, i16)
      [] tag = TAG_INT -> fixed(4, i32)
      [] tag = TAG_LONG -> fixed(8, dec_i64)
      [] tag = TAG_FLOAT -> fixed(4, f32)
      [] tag = TAG_DOUBLE -> fixed(8, PyFloat)
      [] tag = TAG_BYTE_ARRAY -> counted("negative byte array length", bytes_body)
      [] tag = TAG_STRING -> read_string(b, o, met)
      [] tag = TAG_LIST ->
            LET t == Buf_read(b, o, 1) IN
            IF IsErr(t) THEN t
            ELSE LET h == Buf_read(b, t.o, 4) IN
                 IF IsErr(h) THEN h
                 ELSE LET ln == dec_i32(h.val) IN
                      IF ln < 0 THEN Err("negative list length")
                      ELSE read_list_items(b, h.o, t.val[1], ln, <<>>,
                               met \cup {<<"kind", t.val[1]>>, <<"len", ln>>})
      [] tag = TAG_COMPOUND -> read_compound(b, o, <<>>, met)
      [] tag = TAG_INT_ARRAY -> counted("negative int array length", ints_body)
      [] tag = TAG_LONG_ARRAY -> counted("negative long array length", longs_body)
      [] OTHER -> Err("unsupported NBT tag")

\* read_nbt on the bytes of the file: gzip first, raw bytes on OSError
read_nbt(bytes) ==
    LET z == GzipDecompress(bytes) IN
    IF IsErr(z) /\ z.err # "OSError" THEN z
    ELSE LET raw == IF IsErr(z) THEN bytes ELSE z.val
             root_tag == Buf_read(raw, 0, 1)
         IN  IF IsErr(root_tag) THEN root_tag
             ELSE IF root_tag.val[1] # TAG_COMPOUND THEN Err("root tag must be TAG_COMPOUND")
             ELSE LET name == read_string(raw, root_tag.o, {<<"kind", TAG_COMPOUND>>})
                  IN  IF IsErr(name) THEN name
                      ELSE read_payload(raw, name.o, TAG_COMPOUND, name.met)

Min(a, b) == IF a < b THEN a ELSE b

\* -------------------------------------------------------- block-state text
\* A block-state string is the sequence of its tokens: every maximal run of
\* letters is one token, every other character is a token of its own.
\* TokenOrder lists the tokens in Python's string order; the words are purely
\* alphabetic, so comparing token by token agrees with comparing characters.
TokenOrder ==
    <<
       " ", "#", ",", "-", ".", "/", "0", "1",
       "2", "3", "4", "5", "6", "7", "8", "9",
       ":", "=", "DataVersion", "Name", "Properties", "[", "]", "_",
       "acm", "air", "aligned", "axis", "big", "blocks", "bogus", "bottom",
       "color", "door", "down", "east", "empty", "entities", "facing", "final",
       "half", "horizontal", "id", "jigsaw", "joint", "log", "minecraft", "name",
       "nbt", "north", "oak", "orientation", "palette", "pokecenter", "pokemart", "pool",
       "pos", "red", "rollable", "rotation", "sign", "size", "small", "south",
       "stairs", "state", "stone", "street", "target", "template", "text", "tnt",
       "top", "true", "up", "waterlogged", "west", "x", "y", "z",
       "{", "}" >>

\* the code points of each token, in the order of TokenOrder
TokenCodes ==
    <<
       <<32>>, <<35>>, <<44>>,
       <<45>>, <<46>>, <<47>>,
       <<48>>, <<49>>, <<50>>,
       <<51>>, <<52>>, <<53>>,
       <<54>>, <<55>>, <<56>>,
       <<57>>, <<58>>, <<61>>,
       <<68, 97, 116, 97, 86, 101, 114, 115, 105, 111, 110>>, <<78, 97, 109, 101>>, <<80, 114, 111, 112, 101, 114, 116, 105, 101, 115>>,
       <<91>>, <<93>>, <<95>>,
       <<97, 99, 109>>, <<97, 105, 114>>, <<97, 108, 105, 103, 110, 101, 100>>,
       <<97, 120, 105, 115>>, <<98, 105, 103>>, <<98, 108, 111, 99, 107, 115>>,
       <<98, 111, 103, 117, 115>>, <<98, 111, 116, 116, 111, 109>>, <<99, 111, 108, 111, 114>>,
       <<100, 111, 111, 114>>, <<100, 111, 119, 110>>, <<101, 97, 115, 116>>,
       <<101, 109, 112, 116, 121>>, <<101, 110, 116, 105, 116, 105, 101, 115>>, <<102, 97, 99, 105, 110, 103>>,
       <<102, 105, 110, 97, 108>>, <<104, 97, 108, 102>>, <<104, 111, 114, 105, 122, 111, 110, 116, 97, 108>>,
       <<105, 100>>, <<106, 105, 103, 115, 97, 119>>, <<106, 111, 105, 110, 116>>,
       <<108, 111, 103>>, <<109, 105, 110, 101, 99, 114, 97, 102, 116>>, <<110, 97, 109, 101>>,
       <<110, 98, 116>>, <<110, 111, 114, 116, 104>>, <<111, 97, 107>>,
       <<111, 114, 105, 101, 110, 116, 97, 116, 105, 111, 110>>, <<112, 97, 108, 101, 116, 116, 101>>, <<112, 111, 107, 101, 99, 101, 110, 116, 101, 114>>,
       <<112, 111, 107, 101, 109, 97, 114, 116>>, <<112, 111, 111, 108>>, <<112, 111, 115>>,
       <<114, 101, 100>>, <<114, 111, 108, 108, 97, 98, 108, 101>>, <<114, 111, 116, 97, 116, 105, 111, 110>>,
       <<115, 105, 103, 110>>, <<115, 105, 122, 101>>, <<115, 109, 97, 108, 108>>,
       <<115, 111, 117, 116, 104>>, <<115, 116, 97, 105, 114, 115>>, <<115, 116, 97, 116, 101>>,
       <<115, 116, 111, 110, 101>>, <<115, 116, 114, 101, 101, 116>>, <<116, 97, 114, 103, 101, 116>>,
       <<116, 101, 109, 112, 108, 97, 116, 101>>, <<116, 101, 120, 116>>, <<116, 110, 116>>,
       <<116, 111, 112>>, <<116, 114, 117, 101>>, <<117, 112>>,
       <<119, 97, 116, 101, 114, 108, 111, 103, 103, 101, 100>>, <<119, 101, 115, 116>>, <<120>>,
       <<121>>, <<122>>, <<123>>,
       <<125>> >>

\* the place of a token in TokenOrder, tabulated once
RankOf ==
    [tok \in {TokenOrder[i] : i \in 1..Len(TokenOrder)} |->
        CHOOSE i \in 1..Len(TokenOrder) : TokenOrder[i] = tok]
Rank(tok) == RankOf[tok]
IsWord(tok) == Rank(tok) > Rank("_") /\ Rank(tok) < Rank("{")
IsDigit(tok) == Rank(tok) >= Rank("0") /\ Rank(tok) <= Rank("9")

\* the Python str spelled by a token sequence, as code points
RECURSIVE Text(_)
Text(tokens) ==
    IF Len(tokens) = 0 THEN <<>> ELSE TokenCodes[Rank(Head(tokens))] \o Text(Tail(tokens))

\* a < b on Python strings
StrLess(a, b) ==
    LET d == {i \in 1..Min(Len(a), Len(b)) : a[i] # b[i]}
    IN  IF d = {} THEN Len(a) < Len(b)
        ELSE LET i == CHOOSE j \in d : \A m \in d : j <= m
             IN  Rank(a[i]) < Rank(b[i])

\* str.strip()
Strip(s) ==
    LET solid == {i \in 1..Len(s) : s[i] # " "}
    IN  IF solid = {} THEN <<>>
        ELSE SubSeq(s, CHOOSE i \in solid : \A m \in solid : i <= m,
                       CHOOSE i \in solid : \A m \in solid : i >= m)

\* index of the first occurrence of tok in s, 0 when absent
Find(s, tok) ==
    LET at == {i \in 1..Len(s) : s[i] = tok}
    IN  IF at = {} THEN 0 ELSE CHOOSE i \in at : \A m \in at : i <= m

\* str.split(sep)
RECURSIVE Split(_, _)
Split(s, sep) ==
    With(Find(s, sep), LAMBDA at :
         IF at = 0 THEN <<s>>
         ELSE <<SubSeq(s, 1, at - 1)>> \o Split(SubSeq(s, at + 1, Len(s)), sep))

\* sep.join(parts)
RECURSIVE Join(_, _)
Join(parts, sep) ==
    IF Len(parts) = 0 THEN <<>>
    ELSE IF Len(parts) = 1 THEN parts[1]
    ELSE parts[1] \o <<sep>> \o Join(Tail(parts), sep)

\* the characters of [a-z0-9_./-]
IsNameTok(tok) == IsWord(tok) \/ IsDigit(tok) \/ tok \in {"_", ".", "/", "-"}

\* STATE_RE.match: ^(name)(?:\[(props)\])?$ with name = [a-z0-9_./-]+:[a-z0-9_./-]+
STATE_RE(s) ==
    With({i \in 1..Len(s) : ~IsNameTok(s[i])}, LAMBDA stops :
    LET colon == IF stops = {} THEN 0 ELSE CHOOSE i \in stops : \A m \in stops : i <= m
        after == {i \in stops : i > colon}
        endn == IF after = {} THEN Len(s) ELSE (CHOOSE i \in after : \A m \in after : i <= m) - 1
    IN  IF colon < 2 \/ s[colon] # ":" \/ endn <= colon THEN [matched |-> FALSE]
        ELSE IF endn = Len(s)
             THEN [matched |-> TRUE, name |-> s, has_props |-> FALSE, props |-> <<>>]
        ELSE IF s[endn + 1] = "[" /\ s[Len(s)] = "]" /\ Len(s) >= endn + 2
             THEN [matched |-> TRUE, name |-> SubSeq(s, 1, endn), has_props |-> TRUE,
                   props |-> SubSeq(s, endn + 2, Len(s) - 1)]
        ELSE [matched |-> FALSE])

\* a props dict is the sequence of its <<key, value>> items in insertion order
PropKeys(props) == {props[i][1] : i \in 1..Len(props)}
PropGet(props, key) == props[CHOOSE i \in 1..Len(props) : props[i][1] = key][2]

\* the for-loop of parse_block_state over props_raw.split(",")
RECURSIVE parse_segments(_, _, _)
parse_segments(segments, i, props) ==
    IF i > Len(segments) THEN [props |-> props]
    ELSE With(Strip(segments[i]), LAMBDA segment :
         IF segment = <<>> THEN parse_segments(segments, i + 1, props)
         ELSE With(Find(segment, "="), LAMBDA eq :
              IF eq = 0 THEN Err("invalid property segment")
              ELSE With(Strip(SubSeq(segment, 1, eq - 1)), LAMBDA key :
                   With(Strip(SubSeq(segment, eq + 1, Len(segment))), LAMBDA value :
                        IF key = <<>> \/ value = <<>> THEN Err("invalid property segment")
                        ELSE IF key \in PropKeys(props) THEN Err("duplicate property")
                        ELSE parse_segments(segments, i + 1, Append(props, <<key, value>>))))))

parse_block_state(state) ==
    With(STATE_RE(Strip(state)), LAMBDA m :
         IF ~m.matched THEN Err("invalid block state syntax")
         ELSE IF m.has_props /\ m.props # <<>>
              THEN Then(parse_segments(Split(m.props, ","), 1, <<>>), LAMBDA r :
                        [name |-> m.name, props |-> r.props])
         ELSE [name |-> m.name, props |-> <<>>])

\* sorted(props) left out: the keys in insertion order
insertion_order_keys(props) == [i \in 1..Len(props) |-> props[i][1]]

\* sorted(props)
SortedKeys(props) ==
    With(PropKeys(props), LAMBDA keys :
         [i \in 1..Cardinality(keys) |->
            CHOOSE key \in keys : Cardinality({other \in keys : StrLess(other, key)}) = i - 1])

canonical_state(name, props) ==
    IF props = <<>> THEN name
    ELSE With(SortedKeys(props), LAMBDA keys :
              name \o <<"[">>
                   \o Join([i \in 1..Len(keys) |-> keys[i] \o <<"=">> \o PropGet(props, keys[i])], ",")
                   \o <<"]">>)

\* out[key] = value on a props dict: an existing key keeps its place
PropSet(props, key, value) ==
    IF key \in PropKeys(props)
    THEN [i \in 1..Len(props) |-> IF props[i][1] = key THEN <<key, value>> ELSE props[i]]
    ELSE Append(props, <<key, value>>)

\* the for-loop of the converter's _parse_block_state over props.split(",")
RECURSIVE parse_parts_mcedit(_, _, _)
parse_parts_mcedit(parts, i, out) ==
    IF i > Len(parts) THEN [props |-> out]
    ELSE With(Strip(parts[i]), LAMBDA part :
         IF part = <<>> THEN parse_parts_mcedit(parts, i + 1, out)
         ELSE With(Find(part, "="), LAMBDA eq :
              IF eq = 0 THEN Err("invalid block property segment")
              ELSE parse_parts_mcedit(parts, i + 1,
                       PropSet(out, Strip(SubSeq(part, 1, eq - 1)),
                                    Strip(SubSeq(part, eq + 1, Len(part)))))))

\* _parse_block_state of infra/schematic-mcedit-to-structure-nbt.py
parse_block_state_mcedit(s) ==
    With(Find(s, "["), LAMBDA at :
         IF at = 0 THEN [name |-> s, props |-> <<>>]
         ELSE IF s[Len(s)] # "]" THEN Err("invalid block state string")
         ELSE With(Strip(SubSeq(s, at + 1, Len(s) - 1)), LAMBDA props :
              IF props = <<>> THEN [name |-> SubSeq(s, 1, at - 1), props |-> <<>>]
              ELSE Then(parse_parts_mcedit(Split(props, ","), 1, <<>>), LAMBDA r :
                        [name |-> SubSeq(s, 1, at - 1), props |-> r.props])))

\* ---------------------------------------------------------- transform engine
HORIZONTAL == << <<"north">>, <<"east">>, <<"south">>, <<"west">> >>
Rotations == {0, 90, 180, 270}
Mirrors == {"none", "left_right", "front_back"}

IsHorizontal(d) == \E i \in 1..4 : HORIZONTAL[i] = d
HorizontalIndex(d) == (CHOOSE i \in 1..4 : HORIZONTAL[i] = d) - 1

\* transform_dir turning the wrong way round: index - rot/90 instead of + rot/90
transform_dir_counter(dir_name, rot, mirror) ==
    With(IF IsHorizontal(dir_name)
         THEN HORIZONTAL[((HorizontalIndex(dir_name) + 4 - (rot \div 90)) % 4) + 1]
         ELSE dir_name,
         LAMBDA d :
            IF mirror = "left_right"
            THEN (IF d = <<"north">> THEN <<"south">> ELSE IF d = <<"south">> THEN <<"north">> ELSE d)
            ELSE IF mirror = "front_back"
            THEN (IF d = <<"east">> THEN <<"west">> ELSE IF d = <<"west">> THEN <<"east">> ELSE d)
            ELSE d)

transform_dir(dir_name, rot, mirror) ==
    With(IF IsHorizontal(dir_name)
         THEN HORIZONTAL[((HorizontalIndex(dir_name) + (rot \div 90)) % 4) + 1]
         ELSE dir_name,
         LAMBDA d :
            IF mirror = "left_right"
            THEN (IF d = <<"north">> THEN <<"south">> ELSE IF d = <<"south">> THEN <<"north">> ELSE d)
            ELSE IF mirror = "front_back"
            THEN (IF d = <<"east">> THEN <<"west">> ELSE IF d = <<"west">> THEN <<"east">> ELSE d)
            ELSE d)

transform_orientation(orientation, rot, mirror) ==
    With(Find(orientation, "_"), LAMBDA at :
         IF at = 0 THEN orientation
         ELSE LET a == SubSeq(orientation, 1, at - 1)
                  b == SubSeq(orientation, at + 1, Len(orientation))
              IN  (IF IsHorizontal(a) THEN transform_dir(a, rot, mirror) ELSE a)
                  \o <<"_">>
                  \o (IF IsHorizontal(b) THEN transform_dir(b, rot, mirror) ELSE b))

\* transform_axis with the z -> x half of the swap forgotten
transform_axis_one_way(axis, rot) ==
    IF axis = <<"x">> /\ rot \in {90, 270} THEN <<"z">> ELSE axis

transform_axis(axis, rot) ==
    IF axis \notin {<<"x">>, <<"y">>, <<"z">>} THEN axis
    ELSE IF axis = <<"y">> THEN axis
    ELSE IF rot \in {90, 270} THEN (IF axis = <<"x">> THEN <<"z">> ELSE <<"x">>)
    ELSE axis

FACING == <<"facing">>
HORIZONTAL_FACING == <<"horizontal", "_", "facing">>
ORIENTATION == <<"orientation">>
AXIS == <<"axis">>

\* transform_state turning every property whose value is a direction, whatever
\* its key
transform_state_any_key(state, rot, mirror) ==
    Then(parse_block_state(state), LAMBDA parsed :
         [val |-> canonical_state(parsed.name,
                    [i \in 1..Len(parsed.props) |->
                        <<parsed.props[i][1],
                          IF parsed.props[i][1] = AXIS
                          THEN transform_axis(parsed.props[i][2], rot)
                          ELSE transform_orientation(
                                   transform_dir(parsed.props[i][2], rot, mirror), rot, mirror)>>])])

transform_state(state, rot, mirror) ==
    Then(parse_block_state(state), LAMBDA parsed :
         [val |-> canonical_state(parsed.name,
                    [i \in 1..Len(parsed.props) |->
                        LET key == parsed.props[i][1]
                            value == parsed.props[i][2]
                        IN  IF key \in {FACING, HORIZONTAL_FACING}
                            THEN <<key, transform_dir(value, rot, mirror)>>
                            ELSE IF key = ORIENTATION
                            THEN <<key, transform_orientation(value, rot, mirror)>>
                            ELSE IF key = AXIS
                            THEN <<key, transform_axis(value, rot)>>
                            ELSE <<key, value>>])])

\* rotate_size that never swaps the sides
rotate_size_fixed(size, rot) == size

rotate_size(size, rot) ==
    IF rot \in {90, 270} THEN <<size[3], size[2], size[1]>> ELSE size

rotate_pos(x, y, z, size, rot) ==
    CASE rot = 0 -> <<x, y, z>>
      [] rot = 90 -> <<z, y, (size[1] - 1) - x>>
      [] rot = 180 -> <<(size[1] - 1) - x, y, (size[3] - 1) - z>>
      [] rot = 270 -> <<(size[3] - 1) - z, y, x>>

mirror_pos(x, y, z, size, mirror) ==
    CASE mirror = "none" -> <<x, y, z>>
      [] mirror = "left_right" -> <<x, y, (size[3] - 1) - z>>
      [] mirror = "front_back" -> <<(size[1] - 1) - x, y, z>>

transform_pos(pos, size, rot, mirror) ==
    LET r == rotate_pos(pos[1], pos[2], pos[3], size, rot)
    IN  mirror_pos(r[1], r[2], r[3], rotate_size(size, rot), mirror)

\* assert_in_bounds: TRUE when it returns, FALSE when it raises
assert_in_bounds(pos, size) ==
    ~(pos[1] < 0 \/ pos[2] < 0 \/ pos[3] < 0
        \/ pos[1] >= size[1] \/ pos[2] >= size[2] \/ pos[3] >= size[3])

\* ------------------------------------------------------------- allow-list
Ok == [ok |-> TRUE]

\* validate_state without the check of the value against the listed values
validate_state_any_value(state, allowed) ==
    Then(parse_block_state(state), LAMBDA parsed :
         IF parsed.name \notin DOMAIN allowed THEN Err("block not allowlisted")
         ELSE IF \E n \in 1..Len(parsed.props) : parsed.props[n][1] \notin DOMAIN allowed[parsed.name]
         THEN Err("property is not allowlisted")
         ELSE Ok)

\* validate_state(state, allowlist); allowed is allowlist["allowed_blocks"], a
\* mapping name -> allowed_properties, itself a mapping property -> values
validate_state(state, allowed) ==
    Then(parse_block_state(state), LAMBDA parsed :
         IF parsed.name \notin DOMAIN allowed THEN Err("block not allowlisted")
         ELSE LET allowed_props == allowed[parsed.name]
                  bad == {n \in 1..Len(parsed.props) :
                             \/ parsed.props[n][1] \notin DOMAIN allowed_props
                             \/ parsed.props[n][2] \notin allowed_props[parsed.props[n][1]]}
              IN  IF bad = {} THEN Ok
                  ELSE LET n == CHOOSE m \in bad : \A o \in bad : m <= o
                       IN  IF parsed.props[n][1] \notin DOMAIN allowed_props
                           THEN Err("property is not allowlisted")
                           ELSE Err("value is not allowlisted"))

\* ----------------------------------------------------------- plan validator
\* A JSON object is a function from its keys; JSON strings are token
\* sequences, JSON lists are sequences.  The documents drawn by this model are
\* well typed (an int where the plan has an int, a list where it has a list),
\* so the isinstance checks of the validator always pass and are not repeated.
SUPPORTED_BIOMES == <<"plains", "desert", "savanna", "snowy", "taiga">>
BIOME_SET == {SUPPORTED_BIOMES[n] : n \in 1..Len(SUPPORTED_BIOMES)}
PLAN_TYPES == {<<"pokecenter">>, <<"pokemart">>}
DATA_VERSION_1_21_1 == 3955

Up == <<"up">>
Down == <<"down">>
VALID_JIGSAW_ORIENTATIONS ==
    {Down \o <<"_">> \o HORIZONTAL[n] : n \in 1..4}
    \cup {Up \o <<"_">> \o HORIZONTAL[n] : n \in 1..4}
    \cup {HORIZONTAL[n] \o <<"_">> \o Up : n \in 1..4}

\* _check_keys reporting missing keys only
check_keys_missing_only(obj, required, optional) ==
    IF required \ DOMAIN obj # {} THEN Err("missing keys") ELSE Ok

check_keys(obj, required, optional) ==
    IF required \ DOMAIN obj # {} THEN Err("missing keys")
    ELSE IF DOMAIN obj \ (required \cup optional) # {} THEN Err("unknown keys")
    ELSE Ok

as_int_triplet(value, positive) ==
    IF Len(value) # 3 THEN Err("expected a 3-item list")
    ELSE IF positive /\ \E n \in 1..3 : value[n] <= 0 THEN Err("expected integer > 0")
    ELSE Ok

\* the first failure among check(1), ..., check(n), in order
FirstFailure(n, check(_)) ==
    LET failed == {m \in 1..n : IsErr(check(m))}
    IN  IF failed = {} THEN Ok ELSE check(CHOOSE m \in failed : \A o \in failed : m <= o)

ParsesOk(state) == Then(parse_block_state(state), LAMBDA parsed : Ok)

\* the body of the loop over palette_refs[biome].items()
check_palette(palette) ==
    IF \E mk \in DOMAIN palette : mk = "" THEN Err("invalid material key")
    ELSE IF \E mk \in DOMAIN palette : IsErr(parse_block_state(palette[mk]))
    THEN Err("invalid block state syntax")
    ELSE Ok

\* check_block looking the material_key up in the first biome only
check_block_first_biome(block, size, palette_refs) ==
    AndThen(check_keys(block, {"pos", "state"}, {"material_key"}),
    AndThen(as_int_triplet(block.pos, FALSE),
    AndThen(ParsesOk(block.state),
        IF "material_key" \in DOMAIN block /\ block.material_key = ""
        THEN Err("material_key must be non-empty string")
        ELSE IF /\ "material_key" \in DOMAIN block
                /\ block.material_key \notin DOMAIN palette_refs[SUPPORTED_BIOMES[1]]
        THEN Err("material_key missing in palette_refs")
        ELSE IF ~assert_in_bounds(block.pos, size) THEN Err("out of bounds")
        ELSE Ok)))

\* the body of the loop over plan["blocks"]
check_block(block, size, palette_refs) ==
    AndThen(check_keys(block, {"pos", "state"}, {"material_key"}),
    AndThen(as_int_triplet(block.pos, FALSE),
    AndThen(ParsesOk(block.state),
        IF "material_key" \in DOMAIN block /\ block.material_key = ""
        THEN Err("material_key must be non-empty string")
        ELSE IF /\ "material_key" \in DOMAIN block
                /\ \E n \in 1..Len(SUPPORTED_BIOMES) :
                      block.material_key \notin DOMAIN palette_refs[SUPPORTED_BIOMES[n]]
        THEN Err("material_key missing in palette_refs")
        ELSE IF ~assert_in_bounds(block.pos, size) THEN Err("out of bounds")
        ELSE Ok)))

\* the body of the loop over plan["jigsaws"]
check_jigsaw(jigsaw, size) ==
    LET required == {"pos", "name", "target", "pool", "final_state", "joint", "orientation"} IN
    AndThen(check_keys(jigsaw, required, {}),
    AndThen(as_int_triplet(jigsaw.pos, FALSE),
        IF ~assert_in_bounds(jigsaw.pos, size) THEN Err("out of bounds")
        ELSE IF \E f \in required \ {"pos"} : Strip(jigsaw[f]) = <<>>
        THEN Err("must be non-empty string")
        ELSE IF jigsaw.joint \notin {<<"rollable">>, <<"aligned">>}
        THEN Err("joint must be 'rollable' or 'aligned'")
        ELSE IF jigsaw.orientation \notin VALID_JIGSAW_ORIENTATIONS
        THEN Err("orientation is invalid")
        ELSE ParsesOk(jigsaw.final_state)))

\* the body of the loop over plan["block_entities"]
check_block_entity(block_entity, size) ==
    AndThen(check_keys(block_entity, {"pos", "template", "params"}, {}),
    AndThen(as_int_triplet(block_entity.pos, FALSE),
        IF ~assert_in_bounds(block_entity.pos, size) THEN Err("out of bounds")
        ELSE IF Strip(block_entity.template) = <<>> THEN Err("template must be non-empty string")
        ELSE Ok))

\* the body of the loop over plan["entities"]
check_entity(entity, size) ==
    AndThen(check_keys(entity, {"pos", "block_pos", "template", "params"}, {}),
        IF Len(entity.pos) # 3 THEN Err("expected a 3-item list")
        ELSE AndThen(as_int_triplet(entity.block_pos, FALSE),
             IF ~assert_in_bounds(entity.block_pos, size) THEN Err("out of bounds")
             ELSE IF Strip(entity.template) = <<>> THEN Err("template must be non-empty string")
             ELSE Ok))

PlanKeys ==
    {"schema_version", "id", "type", "size", "origin", "blocks", "jigsaws",
     "block_entities", "entities", "palette_refs", "tags"}

\* the palette_refs key check asking only that no supported biome is missing
check_biomes_superset(palette_refs) ==
    IF DOMAIN palette_refs = {} THEN Err("palette_refs must be a non-empty object")
    ELSE IF ~(BIOME_SET \subseteq DOMAIN palette_refs)
    THEN Err("palette_refs must contain exactly the biomes")
    ELSE Ok

\* the palette_refs key check of validate_plan_shape
check_biomes(palette_refs) ==
    IF DOMAIN palette_refs = {} THEN Err("palette_refs must be a non-empty object")
    ELSE IF DOMAIN palette_refs # BIOME_SET THEN Err("palette_refs must contain exactly the biomes")
    ELSE Ok

validate_plan_shape(plan) ==
    LET palettes(n) == check_palette(plan.palette_refs[SUPPORTED_BIOMES[n]])
        blocks(n) == check_block(plan.blocks[n], plan.size, plan.palette_refs)
        jigsaws(n) == check_jigsaw(plan.jigsaws[n], plan.size)
        block_entities(n) == check_block_entity(plan.block_entities[n], plan.size)
        entities(n) == check_entity(plan.entities[n], plan.size)
    IN
    AndThen(check_keys(plan, PlanKeys, {}),
        IF plan.schema_version # 1 THEN Err("schema_version must be 1")
        ELSE IF Strip(plan.id) = <<>> THEN Err("id must be non-empty string")
        ELSE IF plan.type \notin PLAN_TYPES THEN Err("type must be one of")
        ELSE
    AndThen(as_int_triplet(plan.size, TRUE),
    AndThen(as_int_triplet(plan.origin, FALSE),
    AndThen(check_biomes(plan.palette_refs),
    AndThen(FirstFailure(Len(SUPPORTED_BIOMES), palettes),
        IF Len(plan.blocks) = 0 THEN Err("blocks must be a non-empty list")
        ELSE
    AndThen(FirstFailure(Len(plan.blocks), blocks),
        IF Len(plan.jigsaws) < 1 THEN Err("jigsaws must contain at least one entry")
        ELSE
    AndThen(FirstFailure(Len(plan.jigsaws), jigsaws),
    AndThen(FirstFailure(Len(plan.block_entities), block_entities),
            FirstFailure(Len(plan.entities), entities)))))))))

\* ------------------------------------------------------- structure compiler
\* placed[pos] = (state, nbt): a function from positions to [state, nbt];
\* placed[pos] = ... replaces an earlier entry for the same position
\* placed[pos] = ... keeping what an earlier entry put at the position
Place_first_wins(placed, pos, state, nbt) == placed @@ (pos :> [state |-> state, nbt |-> nbt])

Place(placed, pos, state, nbt) == (pos :> [state |-> state, nbt |-> nbt]) @@ placed

JIGSAW_NAME == <<"minecraft", ":", "jigsaw">>

\* the body of the loop over plan["blocks"] in _build_structure
place_block(placed, block, plan, material_map, allowed, rot, mirror) ==
    With(transform_pos(block.pos, plan.size, rot, mirror), LAMBDA pos :
    IF Len(block.pos) # 3 THEN Err("position must have 3 values")
    ELSE IF ~assert_in_bounds(pos, rotate_size(plan.size, rot)) THEN Err("block out of bounds")
    ELSE IF "material_key" \in DOMAIN block /\ block.material_key \notin DOMAIN material_map
    THEN Err("missing palette mapping for material_key")
    ELSE LET raw_state == IF "material_key" \in DOMAIN block
                          THEN material_map[block.material_key] ELSE block.state
         IN  Then(transform_state(raw_state, rot, mirror), LAMBDA transformed_state :
             AndThen(validate_state(transformed_state.val, allowed),
                     [placed |-> Place(placed, pos, transformed_state.val, None)])))

\* the body of the loop over plan["jigsaws"] in _build_structure
place_jigsaw(placed, j, plan, allowed, rot, mirror) ==
    With(transform_pos(j.pos, plan.size, rot, mirror), LAMBDA pos :
    IF Len(j.pos) # 3 THEN Err("position must have 3 values")
    ELSE IF ~assert_in_bounds(pos, rotate_size(plan.size, rot)) THEN Err("jigsaw out of bounds")
    ELSE With(transform_orientation(j.orientation, rot, mirror), LAMBDA orientation :
    IF orientation \notin VALID_JIGSAW_ORIENTATIONS THEN Err("invalid jigsaw orientation")
    ELSE With(canonical_state(JIGSAW_NAME, << <<ORIENTATION, orientation>> >>), LAMBDA state :
    AndThen(validate_state(state, allowed),
    Then(transform_state(j.final_state, rot, mirror), LAMBDA final_state :
    AndThen(validate_state(final_state.val, allowed),
        IF j.name = <<>> \/ j.target = <<>> \/ j.pool = <<>>
        THEN Err("jigsaw name/target/pool must be non-empty")
        ELSE [placed |-> Place(placed, pos, state,
                    PyDict(<< <<<<"name">>, PyStr(j.name)>>,
                              <<<<"target">>, PyStr(j.target)>>,
                              <<<<"pool">>, PyStr(j.pool)>>,
                              <<<<"final", "_", "state">>, PyStr(final_state.val)>>,
                              <<<<"joint">>, PyStr(j.joint)>> >>))]))))))

RECURSIVE place_blocks(_, _, _, _, _, _, _), place_jigsaws(_, _, _, _, _, _)
place_blocks(placed, n, plan, material_map, allowed, rot, mirror) ==
    IF n > Len(plan.blocks) THEN [placed |-> placed]
    ELSE Then(place_block(placed, plan.blocks[n], plan, material_map, allowed, rot, mirror),
              LAMBDA r : place_blocks(r.placed, n + 1, plan, material_map, allowed, rot, mirror))

place_jigsaws(placed, n, plan, allowed, rot, mirror) ==
    IF n > Len(plan.jigsaws) THEN [placed |-> placed]
    ELSE Then(place_jigsaw(placed, plan.jigsaws[n], plan, allowed, rot, mirror),
              LAMBDA r : place_jigsaws(r.placed, n + 1, plan, allowed, rot, mirror))

PosLess(a, b) ==
    \/ a[1] < b[1]
    \/ a[1] = b[1] /\ a[2] < b[2]
    \/ a[1] = b[1] /\ a[2] = b[2] /\ a[3] < b[3]

\* sorted(placed.items()) as (x, y, z, state, nbt) entries
blocks_out(placed) ==
    LET cells == DOMAIN placed
    IN  [n \in 1..Cardinality(cells) |->
            LET pos == CHOOSE c \in cells : Cardinality({o \in cells : PosLess(o, c)}) = n - 1
            IN  [pos |-> pos, state |-> placed[pos].state, nbt |-> placed[pos].nbt]]

\* ---------------------------------------------------------------- templates
\* letters of either case, digits and "_": the class [a-zA-Z0-9_] of PARAM_TOKEN_RE
IsParamTok(tok) ==
    \/ IsWord(tok) \/ IsDigit(tok) \/ tok = "_"
    \/ (Rank(tok) > Rank("=") /\ Rank(tok) < Rank("["))

\* str(n) for an int n >= 0
RECURSIVE Digits(_)
Digits(n) ==
    IF n < 10 THEN <<TokenOrder[Rank("0") + n]>>
    ELSE Digits(n \div 10) \o <<TokenOrder[Rank("0") + (n % 10)]>>

\* the IEEE-754 image of the double n.0 for an integer 0 <= n < 4096
Double(n) ==
    IF n = 0 THEN <<0, 0, 0, 0, 0, 0, 0, 0>>
    ELSE LET e == CHOOSE k \in 0..11 : 2^k <= n /\ n < 2^(k + 1)
             frac == (n - 2^e) * 2^(12 - e)
             biased == 1023 + e
         IN  <<biased \div 16, ((biased % 16) * 16) + (frac \div 256), frac % 256, 0, 0, 0, 0, 0>>

\* the integer a parameter number stands for (a yaw is a whole number of degrees)
NumOf(v) ==
    IF PyKind(v) = "int" THEN PyVal(v)
    ELSE CHOOSE n \in 0..359 : Double(n) = PyVal(v)

\* str(v) for a parameter value: a str, an int, or a whole-degree double ("90.0")
StrOf(v) ==
    CASE PyKind(v) = "str" -> PyVal(v)
      [] PyKind(v) = "int" ->
            IF PyVal(v) < 0 THEN <<"-">> \o Digits(0 - PyVal(v)) ELSE Digits(PyVal(v))
      [] PyKind(v) = "float" -> Digits(NumOf(v)) \o <<".", "0">>

transform_rotation_yaw(rot_value, rot, mirror) ==
    With((rot_value + rot) % 360, LAMBDA out :
         IF mirror = "left_right" THEN (180 - out) % 360
         ELSE IF mirror = "front_back" THEN (0 - out) % 360
         ELSE out)

\* _transformed_params: params is the sequence of the <<key, value>> items
transformed_params(params, rot, mirror) ==
    [n \in 1..Len(params) |->
        IF params[n][1] = FACING /\ PyKind(params[n][2]) = "str"
        THEN <<FACING, PyStr(transform_dir(PyVal(params[n][2]), rot, mirror))>>
        ELSE IF params[n][1] = <<"rotation">> /\ PyKind(params[n][2]) \in {"int", "float"}
        THEN <<params[n][1], PyFloat(Double(transform_rotation_yaw(NumOf(params[n][2]), rot, mirror)))>>
        ELSE params[n]]

\* load_template_compound on the decoded root of the template file
load_template_compound(nbt_root) ==
    IF <<"template">> \in DictKeys(nbt_root) /\ PyKind(DictGet(nbt_root, <<"template">>)) = "dict"
    THEN [val |-> DictGet(nbt_root, <<"template">>)]
    ELSE Err("root must contain compound key 'template'")

\* str.replace(old, new)
RECURSIVE Replace(_, _, _)
Replace(s, old, new) ==
    IF Len(s) < Len(old) THEN s
    ELSE IF SubSeq(s, 1, Len(old)) = old
    THEN new \o Replace(SubSeq(s, Len(old) + 1, Len(s)), old, new)
    ELSE <<Head(s)>> \o Replace(Tail(s), old, new)

\* the loop of apply_params over params.items() for a str value
RECURSIVE apply_params_str(_, _, _)
apply_params_str(value, params, n) ==
    IF n > Len(params) THEN PyStr(value)
    ELSE With(<<"{", "{">> \o params[n][1] \o <<"}", "}">>, LAMBDA token :
         IF value = token THEN params[n][2]
         ELSE apply_params_str(Replace(value, token, StrOf(params[n][2])), params, n + 1))

RECURSIVE apply_params(_, _)
apply_params(value, params) ==
    CASE PyKind(value) = "str" -> apply_params_str(PyVal(value), params, 1)
      [] PyKind(value) = "dict" ->
            PyDict([n \in 1..Len(PyVal(value)) |->
                      <<PyVal(value)[n][1], apply_params(PyVal(value)[n][2], params)>>])
      [] PyKind(value) = "NbtList" ->
            NbtList(InnerTag(value), [n \in 1..Len(PyVal(value)) |-> apply_params(PyVal(value)[n], params)])
      [] PyKind(value) = "list" ->
            PyList([n \in 1..Len(PyVal(value)) |-> apply_params(PyVal(value)[n], params)])
      [] OTHER -> value

\* the names between "{{" and "}}" in a str: PARAM_TOKEN_RE.finditer
param_tokens_str(s) ==
    {SubSeq(s, i + 2, j - 1) : <<i, j>> \in
        {ij \in (1..Len(s)) \X (1..Len(s)) :
            /\ ij[1] + 2 < ij[2] /\ ij[2] < Len(s)
            /\ s[ij[1]] = "{" /\ s[ij[1] + 1] = "{"
            /\ s[ij[2]] = "}" /\ s[ij[2] + 1] = "}"
            /\ \A m \in (ij[1] + 2)..(ij[2] - 1) : IsParamTok(s[m])}}

RECURSIVE collect_param_tokens(_)
collect_param_tokens(value) ==
    CASE PyKind(value) = "str" -> param_tokens_str(PyVal(value))
      [] PyKind(value) \in {"dict"} ->
            UNION {collect_param_tokens(PyVal(value)[n][2]) : n \in 1..Len(PyVal(value))}
      [] PyKind(value) \in {"NbtList", "list"} ->
            UNION {collect_param_tokens(PyVal(value)[n]) : n \in 1..Len(PyVal(value))}
      [] OTHER -> {}

\* merged.update(nbt) leaving the keys merged already has as they are
RECURSIVE dict_update_keep_existing(_, _, _)
dict_update_keep_existing(items, nbt, n) ==
    IF n > Len(nbt) THEN items
    ELSE dict_update_keep_existing(
             IF \E i \in 1..Len(items) : items[i][1] = nbt[n][1]
             THEN items ELSE Append(items, nbt[n]),
             nbt, n + 1)

\* merged = dict(existing_nbt or {}); merged.update(nbt)
RECURSIVE dict_update(_, _, _)
dict_update(items, nbt, n) ==
    IF n > Len(nbt) THEN items
    ELSE dict_update(DictPut(items, nbt[n][1], nbt[n][2]), nbt, n + 1)

\* the body of the loop over plan["block_entities"] in _build_structure;
\* templates maps the file names under block_tpl_dir to their decoded roots
place_block_entity(placed, be, plan, templates, rot, mirror) ==
    With(transform_pos(be.pos, plan.size, rot, mirror), LAMBDA pos :
    IF ~assert_in_bounds(pos, rotate_size(plan.size, rot)) THEN Err("block_entity out of bounds")
    ELSE IF pos \notin DOMAIN placed THEN Err("block entity has no block")
    ELSE IF be.template \notin DOMAIN templates THEN Err("missing block entity template")
    ELSE With(transformed_params(be.params, rot, mirror), LAMBDA params :
         Then(load_template_compound(templates[be.template]), LAMBDA template_compound :
         With(apply_params(template_compound.val, params), LAMBDA nbt :
         With(IF placed[pos].nbt = None THEN <<>> ELSE PyVal(placed[pos].nbt), LAMBDA existing :
              [placed |-> Place(placed, pos, placed[pos].state,
                                PyDict(dict_update(existing, PyVal(nbt), 1)))])))))

RECURSIVE place_block_entities(_, _, _, _, _, _)
place_block_entities(placed, n, plan, templates, rot, mirror) ==
    IF n > Len(plan.block_entities) THEN [placed |-> placed]
    ELSE Then(place_block_entity(placed, plan.block_entities[n], plan, templates, rot, mirror),
              LAMBDA r : place_block_entities(r.placed, n + 1, plan, templates, rot, mirror))

\* the warnings one unit appends: per block entity, every parameter, in sorted
\* order, that no {{token}} of its template names
RECURSIVE unit_warnings(_, _, _)
unit_warnings(plan, templates, n) ==
    IF n > Len(plan.block_entities) THEN <<>>
    ELSE With(plan.block_entities[n], LAMBDA be :
         With(SortedKeys(be.params), LAMBDA keys :
         With(collect_param_tokens(load_template_compound(templates[be.template]).val), LAMBDA supported :
         With({i \in 1..Len(keys) : keys[i] \notin supported}, LAMBDA unused :
              [i \in 1..Cardinality(unused) |->
                  <<"warn", be.template,
                    keys[CHOOSE k \in unused : Cardinality({o \in unused : o < k}) = i - 1]>>]
              \o unit_warnings(plan, templates, n + 1)))))

\* _build_structure without --include-entities (the default of the command
\* line): entities_out stays empty
build_structure(plan, biome, allowed, templates, rot, mirror) ==
    LET out_size == rotate_size(plan.size, rot) IN
    IF \E a \in 1..3 : out_size[a] <= 0 THEN Err("invalid transformed size")
    ELSE IF biome \notin DOMAIN plan.palette_refs THEN Err("plan does not define palette for biome")
    ELSE Then(place_blocks(<<>>, 1, plan, plan.palette_refs[biome], allowed, rot, mirror), LAMBDA b :
         Then(place_jigsaws(b.placed, 1, plan, allowed, rot, mirror), LAMBDA j :
         Then(place_block_entities(j.placed, 1, plan, templates, rot, mirror), LAMBDA e :
              [size |-> out_size, blocks |-> blocks_out(e.placed), entities |-> <<>>])))

\* the tree handed to the codec: every str spelled out as code points
RECURSIVE TextTree(_)
TextTree(value) ==
    CASE PyKind(value) = "str" -> PyStr(Text(PyVal(value)))
      [] PyKind(value) = "dict" ->
            PyDict([n \in 1..Len(PyVal(value)) |->
                      <<Text(PyVal(value)[n][1]), TextTree(PyVal(value)[n][2])>>])
      [] PyKind(value) \in {"list", "NbtList"} ->
            <<PyKind(value), [n \in 1..Len(PyVal(value)) |-> TextTree(PyVal(value)[n])]>>
            \o (IF PyKind(value) = "NbtList" THEN <<InnerTag(value)>> ELSE <<>>)
      [] OTHER -> value

\* the palette list with one entry per block, seen before or not
RECURSIVE first_seen_no_dedup(_, _, _)
first_seen_no_dedup(blocks, n, palette) ==
    IF n > Len(blocks) THEN palette
    ELSE first_seen_no_dedup(blocks, n + 1, Append(palette, blocks[n].state))

\* the states of the blocks in order of first occurrence: the palette list
RECURSIVE first_seen(_, _, _)
first_seen(blocks, n, palette) ==
    IF n > Len(blocks) THEN palette
    ELSE first_seen(blocks, n + 1,
                    IF \E m \in 1..Len(palette) : palette[m] = blocks[n].state
                    THEN palette ELSE Append(palette, blocks[n].state))

palette_entry(state) ==
    With(parse_block_state(state), LAMBDA parsed :
    With(SortedKeys(parsed.props), LAMBDA keys :
         PyDict(<< <<<<"Name">>, PyStr(parsed.name)>> >>
               \o (IF parsed.props = <<>> THEN <<>>
                   ELSE << <<<<"Properties">>,
                             PyDict([n \in 1..Len(keys) |->
                                       <<keys[n], PyStr(PropGet(parsed.props, keys[n]))>>])>> >>))))

structure_root(size, blocks, entities) ==
    With(first_seen(blocks, 1, <<>>), LAMBDA palette :
    LET palette_idx(state) == (CHOOSE m \in 1..Len(palette) : palette[m] = state) - 1
        block_entry(b) ==
            PyDict(<< <<<<"state">>, PyInt(palette_idx(b.state))>>,
                      <<<<"pos">>, NbtList(TAG_INT, <<PyInt(b.pos[1]), PyInt(b.pos[2]), PyInt(b.pos[3])>>)>> >>
                   \o (IF b.nbt = None \/ b.nbt = PyDict(<<>>) THEN <<>>
                       ELSE << <<<<"nbt">>, b.nbt>> >>))
    IN  PyDict(<< <<<<"DataVersion">>, PyInt(DATA_VERSION_1_21_1)>>,
                  <<<<"size">>, NbtList(TAG_INT, <<PyInt(size[1]), PyInt(size[2]), PyInt(size[3])>>)>>,
                  <<<<"palette">>, NbtList(TAG_COMPOUND, [n \in 1..Len(palette) |-> palette_entry(palette[n])])>>,
                  <<<<"blocks">>, NbtList(TAG_COMPOUND, [n \in 1..Len(blocks) |-> block_entry(blocks[n])])>>,
                  <<<<"entities">>, NbtList(TAG_COMPOUND, entities)>> >>))

\* the variant computed by compile_all from the plan id and type
plan_variant(plan) ==
    LET plan_id == Strip(plan.id)
        prefix == plan.type \o <<"_">>
        variant == IF Len(plan_id) >= Len(prefix) /\ SubSeq(plan_id, 1, Len(prefix)) = prefix
                   THEN SubSeq(plan_id, Len(prefix) + 1, Len(plan_id)) ELSE plan_id
    IN  [n \in 1..Len(variant) |->
            IF IsWord(variant[n]) \/ IsDigit(variant[n]) \/ variant[n] \in {"_", "/", "-"} THEN variant[n] ELSE "_"]

\* out_root / "village" / f"{plan_type}_{variant}_{biome}.nbt"
out_path(plan, biome) == <<plan.type, plan_variant(plan), biome>>

\* -------------------------------------------------------- codec: the inputs
KeyA == <<97>>
KeyNames == <<KeyA, <<98>>, <<99>>, <<100>>>>
LongStr == PyStr([i \in 1..LongStrLen |-> 97])
Half == PyFloat(<<63, 224, 0, 0, 0, 0, 0, 0>>)

Leaves ==
    { PyBool(TRUE), PyBool(FALSE), PyInt(-2), PyInt(300), Half,
      PyStr(<<>>), PyStr(<<97, 98>>), PyStr(<<233>>), PyBytes(<<0, 255>>), None }

Lists ==
    { NbtList(TAG_INT, <<PyInt(1), PyInt(-2)>>),
      NbtList(TAG_END, <<>>),
      NbtList(TAG_INT, <<>>),
      NbtList(TAG_BYTE, <<PyInt(1)>>),
      NbtList(TAG_COMPOUND, <<PyDict(<<>>), PyDict(<< <<KeyA, PyBool(TRUE)>> >>)>>),
      NbtList(TAG_LIST, <<NbtList(TAG_STRING, <<PyStr(<<97>>)>>)>>),
      PyList(<<PyInt(1), PyInt(2)>>),
      PyList(<<>>),
      PyList(<<PyInt(1), PyStr(<<97>>)>>) }

Members == Leaves \cup Lists \cup {PyDict(<<>>), PyDict(<< <<KeyA, PyInt(7)>> >>)}
MoreMembers == {PyInt(5), PyStr(<<122>>), NbtList(TAG_DOUBLE, <<Half>>)}

\* dicts of n items: the first value from Members, the others from MoreMembers
RECURSIVE RootItems(_)
RootItems(n) ==
    IF n = 0 THEN {<<>>}
    ELSE IF n = 1 THEN {<< <<KeyNames[1], m>> >> : m \in Members}
    ELSE {Append(r, <<KeyNames[n], m>>) : r \in RootItems(n - 1), m \in MoreMembers}

Trees ==
    {PyDict(r) : r \in UNION {RootItems(n) : n \in 0..MaxMembers}}
    \cup {PyDict(<< <<KeyA, LongStr>> >>), PyInt(1), PyList(<<>>)}

FuzzBytes == {0, 13, 128, 255}

\* ------------------------------------------------------- codec: the actions
CodecIdle == tree = None /\ file = <<>> /\ fuzz = "none" /\ res = Pending
XfIdle == cell = Pending /\ cell0 = Pending /\ applied = <<>>
CompIdle ==
    /\ plans = <<>> /\ argv = Pending /\ pi = 0 /\ bi = 0 /\ compiled = 0
    /\ built = Pending /\ files = <<>> /\ report = <<>> /\ exit_code = -1
GramIdle ==
    /\ text = <<>> /\ how = "none" /\ parse_out = Pending /\ legacy = Pending
    /\ canon = Pending /\ prev = Pending /\ moved = Pending
RegionIdle == region = Pending /\ slot = Pending /\ chunk = Pending
SectionIdle == section = Pending /\ packed = Pending /\ got = Pending
JobsIdle ==
    /\ history_limit = 0 /\ records = <<>> /\ jobq = <<>> /\ worker = Pending
    /\ caller = Pending /\ next_id = 0 /\ reply = Pending
AdminIdle == issued = {} /\ token_seq = 0 /\ retired = {} /\ resp = Pending

InitCodec ==
    /\ pc = "codec"
    /\ tree \in Trees
    /\ file = <<>>
    /\ fuzz = "none"
    /\ res = Pending
    /\ XfIdle /\ CompIdle /\ GramIdle /\ RegionIdle /\ SectionIdle /\ JobsIdle /\ AdminIdle

\* write_nbt(path, root)
WriteNbt ==
    /\ pc = "codec"
    /\ LET w == write_nbt(tree)
       IN  IF IsErr(w)
           THEN pc' = "rejected" /\ res' = w /\ UNCHANGED <<file, fuzz>>
           ELSE pc' = "file" /\ file' = w.val /\ fuzz' = "written" /\ UNCHANGED res
    /\ UNCHANGED <<tree, xfVars, compVars, gramVars, regionVars, sectionVars, jobVars, adminVars>>

\* the same tree stored without the gzip wrapper (the raw format variant)
StoreRaw ==
    /\ pc = "codec"
    /\ ~IsErr(write_nbt(tree))
    /\ file' = GzipDecompress(write_nbt(tree).val).val
    /\ fuzz' = "raw"
    /\ pc' = "file"
    /\ UNCHANGED <<tree, res, xfVars, compVars, gramVars, regionVars, sectionVars, jobVars, adminVars>>

\* a raw file cut short
Truncate ==
    /\ pc = "file" /\ fuzz = "raw"
    /\ \E n \in 0..(Len(file) - 1) :
          /\ n <= MaxFuzzPos \/ n >= Len(file) - MaxFuzzPos
          /\ file' = SubSeq(file, 1, n)
    /\ fuzz' = "truncated"
    /\ UNCHANGED <<pc, tree, res, xfVars, compVars, gramVars, regionVars, sectionVars, jobVars, adminVars>>

\* a raw file with one byte overwritten
Patch ==
    /\ pc = "file" /\ fuzz = "raw"
    /\ \E i \in 1..Min(Len(file), MaxFuzzPos), byte \in FuzzBytes :
          /\ file[i] # byte
          /\ file' = [file EXCEPT ![i] = byte]
    /\ fuzz' = "patched"
    /\ UNCHANGED <<pc, tree, res, xfVars, compVars, gramVars, regionVars, sectionVars, jobVars, adminVars>>

\* read_nbt(path)
ReadNbt ==
    /\ pc = "file"
    /\ res' = read_nbt(file)
    /\ pc' = "read"
    /\ UNCHANGED <<tree, file, fuzz, xfVars, compVars, gramVars, regionVars, sectionVars, jobVars, adminVars>>

NextCodec == WriteNbt \/ StoreRaw \/ Truncate \/ Patch \/ ReadNbt

SpecCodec == InitCodec /\ [][NextCodec]_vars

\* ------------------------------------------------------------ codec: claims
\* C1: decoding the bytes written for a tag tree the encoder accepts yields a
\* value equal to that tree.
RoundTrip ==
    (pc = "read" /\ fuzz = "written") => (~IsErr(res) /\ PyEq(res.val, tree))

\* C2: a decode that meets a truncated input, a negative declared length or a
\* tag-kind byte outside 0..12 (also as the element kind of a list) never
\* returns a value.
DecodeRejectsMalformed ==
    (pc = "read" /\ ~IsErr(res)) =>
        /\ fuzz # "truncated"
        /\ \A e \in res.met : e[1] = "kind" => e[2] \in 0..12
        /\ \A e \in res.met : e[1] = "len" => e[2] >= 0

\* ------------------------------------------------------ transform: actions
\* unit step of a horizontal direction: north=-z, east=+x, south=+z, west=-x
UnitStep(d) ==
    CASE d = <<"north">> -> <<0, 0, -1>>
      [] d = <<"east">> -> <<1, 0, 0>>
      [] d = <<"south">> -> <<0, 0, 1>>
      [] d = <<"west">> -> <<-1, 0, 0>>

Stairs(d) == <<"minecraft", ":", "oak", "_", "stairs", "[", "half", "=", "bottom", ",",
               "facing", "=">> \o d \o <<"]">>
Jigsaw(o) == <<"minecraft", ":", "jigsaw", "[", "orientation", "=">> \o o \o <<"]">>
Log(a) == <<"minecraft", ":", "oak", "_", "log", "[", "axis", "=", a, "]">>
Stone == <<"minecraft", ":", "stone">>

\* states whose directional properties follow the direction d
StatesFacing(d) ==
    { Stairs(d),
      Jigsaw(d \o <<"_", "up">>),
      Jigsaw(<<"down", "_">> \o d),
      Log(IF d \in {<<"east">>, <<"west">>} THEN "x" ELSE "z"),
      Log("y"),
      <<"minecraft", ":", "stone", "[", "waterlogged", "=", "true", ",",
        "horizontal", "_", "facing", "=">> \o d \o <<"]">>,
      Stairs(<<"up">>),
      Stone }

Sizes == {<<sx, 2, sz>> : sx \in 1..MaxSide, sz \in 1..MaxSide}
Cells(size) == {<<x, y, z>> : x \in 0..(size[1] - 1), y \in 0..(size[2] - 1), z \in 0..(size[3] - 1)}

InitTransform ==
    /\ pc = "transform"
    /\ \E size \in Sizes, i \in 1..4 :
         \E pos \in Cells(size), state \in StatesFacing(HORIZONTAL[i]) :
            cell = [size |-> size, pos |-> pos,
                    nbr |-> [a \in 1..3 |-> pos[a] + UnitStep(HORIZONTAL[i])[a]],
                    dir |-> HORIZONTAL[i], state |-> state]
    /\ cell0 = cell
    /\ applied = <<>>
    /\ CodecIdle /\ CompIdle /\ GramIdle /\ RegionIdle /\ SectionIdle /\ JobsIdle /\ AdminIdle

\* the per-cell step of _build_structure: transform_pos against the source
\* size, the output size from rotate_size, transform_state on the state
Apply ==
    /\ pc = "transform"
    /\ Len(applied) < MaxRepeat
    /\ \E rot \in Rotations, mirror \in Mirrors :
          /\ IF applied = <<>> THEN TRUE ELSE applied[1] = <<rot, mirror>>
          /\ cell' = [size |-> rotate_size(cell.size, rot),
                      pos |-> transform_pos(cell.pos, cell.size, rot, mirror),
                      nbr |-> transform_pos(cell.nbr, cell.size, rot, mirror),
                      dir |-> transform_dir(cell.dir, rot, mirror),
                      state |-> transform_state(cell.state, rot, mirror).val]
          /\ applied' = Append(applied, <<rot, mirror>>)
    /\ UNCHANGED <<pc, cell0, codecVars, compVars, gramVars, regionVars, sectionVars, jobVars, adminVars>>

NextTransform == Apply

SpecTransform == InitTransform /\ [][NextTransform]_vars

\* ----------------------------------------------------- transform: claims
\* C5: the transformed facing points from the transformed position of a cell
\* to the transformed position of the cell it faced.
Equivariance ==
    (pc = "transform" /\ Len(applied) = 1) =>
        [a \in 1..3 |-> cell.nbr[a] - cell.pos[a]] = UnitStep(cell.dir)

SameState(s1, s2) ==
    LET p1 == parse_block_state(s1)
        p2 == parse_block_state(s2)
    IN  /\ p1.name = p2.name
        /\ PropKeys(p1.props) = PropKeys(p2.props)
        /\ \A key \in PropKeys(p1.props) : PropGet(p1.props, key) = PropGet(p2.props, key)

FourTurns == applied = <<<<90, "none">>, <<90, "none">>, <<90, "none">>, <<90, "none">>>>
TwoFlips == Len(applied) = 2 /\ applied[1][1] = 0

\* C6: four 90-degree rotations, each against the size left by the previous
\* one, and two mirrors of the same mode, return the size, every coordinate
\* and every block state to the original: the same name and property values,
\* spelled in canonical form (keys sorted).
RotationIdentity ==
    (pc = "transform" /\ (FourTurns \/ TwoFlips)) =>
        /\ cell.size = cell0.size
        /\ cell.pos = cell0.pos
        /\ cell.nbr = cell0.nbr
        /\ cell.dir = cell0.dir
        /\ SameState(cell.state, cell0.state)
        /\ cell.state = canonical_state(parse_block_state(cell0.state).name,
                                        parse_block_state(cell0.state).props)

RotationIdentityWitness ==
    /\ pc = "transform" /\ FourTurns
    /\ cell0.size = <<1, 2, 2>> /\ cell0.pos = <<0, 1, 1>>
    /\ cell0.state = Stairs(<<"east">>) /\ cell0.dir = <<"east">>
    /\ cell.dir = <<"east">>

\* ------------------------------------------------------ compiler: the inputs
Tnt == <<"minecraft", ":", "tnt">>
East == <<"east">>
NorthUp == <<"north", "_", "up">>

\* allowlist["allowed_blocks"]: oak_log may not lie along z, a jigsaw may not
\* point south_up, tnt is not listed
ALLOWED ==
    (Stone :> <<>>)
    @@ (<<"minecraft", ":", "oak", "_", "stairs">> :>
            ((FACING :> {HORIZONTAL[n] : n \in 1..4}) @@ (<<"half">> :> {<<"bottom">>, <<"top">>})))
    @@ (<<"minecraft", ":", "oak", "_", "log">> :> (AXIS :> {<<"x">>, <<"y">>}))
    @@ (JIGSAW_NAME :> (ORIENTATION :> (VALID_JIGSAW_ORIENTATIONS \ {<<"south", "_", "up">>})))

BiomePalette(biome) ==
    ("wall" :> (IF biome = "desert" THEN Log("x") ELSE Stone))
    @@ ("roof" :> Stairs(IF biome = "snowy" THEN <<"north">> ELSE East))

PalGood == [biome \in BIOME_SET |-> BiomePalette(biome)]
PalNoTaiga == [biome \in BIOME_SET \ {"taiga"} |-> BiomePalette(biome)]
PalExtra == [biome \in BIOME_SET \cup {"jungle"} |-> BiomePalette(biome)]
PalRoofPartial ==
    [biome \in BIOME_SET |-> IF biome = "snowy" THEN ("wall" :> Stone) ELSE BiomePalette(biome)]
PalTnt ==
    [biome \in BIOME_SET |-> IF biome = "savanna" THEN ("wall" :> Tnt) @@ BiomePalette(biome)
                             ELSE BiomePalette(biome)]
Palettes == {PalGood, PalNoTaiga, PalExtra, PalRoofPartial, PalTnt}

BlockChoices ==
    { [pos |-> <<0, 0, 0>>, state |-> Stone],
      [pos |-> <<1, 0, 2>>, state |-> Stairs(East)],
      [pos |-> <<1, 0, 2>>, state |-> Stone, material_key |-> "wall"],
      [pos |-> <<0, 0, 1>>, state |-> Stone, material_key |-> "roof"],
      [pos |-> <<0, 0, 1>>, state |-> Tnt] }

RECURSIVE BlockSeqs(_)
BlockSeqs(n) ==
    IF n = 0 THEN {<<>>}
    ELSE {Append(prefix, b) : prefix \in BlockSeqs(n - 1), b \in BlockChoices}

Door == <<"acm", ":", "door">>
Jig(orientation, final_state) ==
    [pos |-> <<0, 0, 0>>, name |-> Door, target |-> Door, pool |-> <<"minecraft", ":", "empty">>,
     final_state |-> final_state, joint |-> <<"rollable">>, orientation |-> orientation]

Plan(id, blocks, jigsaws, palette_refs) ==
    [schema_version |-> 1, id |-> id, type |-> <<"pokecenter">>, size |-> <<2, 1, 3>>,
     origin |-> <<0, 0, 0>>, blocks |-> blocks, jigsaws |-> jigsaws, block_entities |-> <<>>,
     entities |-> <<>>, palette_refs |-> palette_refs, tags |-> <<>>]

SmallId == <<"pokecenter", "_", "small">>
BigId == <<"big">>
Block1 == [pos |-> <<0, 0, 0>>, state |-> Stone]
GoodPlan == Plan(SmallId, <<Block1, [pos |-> <<1, 0, 2>>, state |-> Stairs(East)]>>,
                 <<Jig(NorthUp, Stone)>>, PalGood)

\* one plan per sequence of blocks, per palette, and per jigsaw and root variant
RichPlans ==
    {Plan(SmallId, blocks, <<Jig(NorthUp, Stone)>>, PalGood) :
        blocks \in UNION {BlockSeqs(n) : n \in 1..MaxBlocks}}
    \cup {Plan(SmallId, <<block>>, <<Jig(NorthUp, Stone)>>, pal) :
            block \in BlockChoices, pal \in Palettes}
    \cup {Plan(SmallId, <<Block1>>, jigsaws, PalGood) :
            jigsaws \in { <<Jig(<<"up", "_", "east">>, Stairs(<<"west">>))>>,
                          <<Jig(<<"south", "_", "up">>, Stone)>>,
                          <<Jig(Up, Stone)>>,
                          <<Jig(NorthUp, Tnt)>>,
                          <<Jig(NorthUp, Stone), Jig(<<"down", "_", "north">>, Log("y"))>>,
                          <<>> }}
    \cup { [GoodPlan EXCEPT !.schema_version = 2],
           [GoodPlan EXCEPT !.id = <<"pokecenter", "_">>],
           [GoodPlan EXCEPT !.id = <<" ">>],
           [GoodPlan EXCEPT !.type = <<"bogus">>],
           [GoodPlan EXCEPT !.size = <<2, 0, 3>>],
           [GoodPlan EXCEPT !.blocks = <<>>],
           [GoodPlan EXCEPT !.blocks = <<[pos |-> <<2, 0, 0>>, state |-> Stone]>>],
           [GoodPlan EXCEPT !.blocks = <<[pos |-> <<0, 0, 0>>, state |-> <<"minecraft", ":", "stone", "[", "facing">>]>>],
           [GoodPlan EXCEPT !.blocks = <<[pos |-> <<0, 0, 0>>, state |-> Stairs(Up)]>>],
           [GoodPlan EXCEPT !.blocks = <<[pos |-> <<0, 0, 0>>, state |-> Stone, material_key |-> ""]>>],
           [k \in PlanKeys \ {"tags"} |-> GoodPlan[k]],
           [k \in PlanKeys \cup {"notes"} |-> IF k = "notes" THEN <<>> ELSE GoodPlan[k]] }

\* the plans that share a plans root in the runs over several plans: two that
\* validate (the second has a desert wall that no rotation by 90 may keep),
\* one with a biome missing, one with a block that is not allowlisted
Curated ==
    { GoodPlan,
      [Plan(BigId, <<[pos |-> <<1, 0, 2>>, state |-> Stone, material_key |-> "wall"]>>,
            <<Jig(NorthUp, Stone)>>, PalGood) EXCEPT !.type = <<"pokemart">>],
      Plan(SmallId, <<Block1>>, <<Jig(NorthUp, Stone)>>, PalNoTaiga),
      Plan(BigId, <<[pos |-> <<0, 0, 1>>, state |-> Tnt]>>, <<Jig(NorthUp, Stone)>>, PalGood) }

\* the files under templates_root/block_entities, by name, as read_nbt decodes
\* them: a sign with four {{token}} places, a door without any, and a file
\* whose root has no "template" compound
SignFile == <<"sign", ".", "nbt">>
DoorFile == <<"door", ".", "nbt">>
BogusFile == <<"bogus", ".", "nbt">>
TEMPLATES ==
    (SignFile :>
        PyDict(<< <<<<"template">>,
                    PyDict(<< <<<<"id">>, PyStr(<<"minecraft", ":", "sign">>)>>,
                              <<<<"text">>, NbtList(TAG_STRING, <<PyStr(<<"{", "{", "text", "}", "}">>)>>)>>,
                              <<FACING, PyStr(<<"{", "{", "facing", "}", "}">>)>>,
                              <<<<"rotation">>, PyStr(<<"{", "{", "rotation", "}", "}">>)>>,
                              <<<<"name">>, PyStr(<<"acm", ":", "{", "{", "name", "}", "}">>)>> >>)>> >>))
    @@ (DoorFile :>
        PyDict(<< <<<<"template">>, PyDict(<< <<<<"id">>, PyStr(Door)>> >>)>> >>))
    @@ (BogusFile :> PyDict(<< <<<<"name">>, PyStr(Door)>> >>))

\* block_entities and entities entries
Attach(pos, template, params) == [pos |-> pos, template |-> template, params |-> params]
SignParams ==
    << <<<<"text">>, PyStr(<<"red">>)>>, <<FACING, PyStr(East)>>, <<<<"name">>, PyInt(12)>> >>
YawParams == << <<<<"rotation">>, PyInt(90)>>, <<<<"color">>, PyStr(<<"red">>)>> >>
Sign == Attach(<<0, 0, 0>>, SignFile, SignParams)
Mob == [pos |-> <<1, 0, 2>>, block_pos |-> <<1, 0, 2>>, template |-> DoorFile, params |-> <<>>]

\* a plan with one entry of every kind: the sign sits on the jigsaw cell
FullPlan == [GoodPlan EXCEPT !.block_entities = <<Sign>>, !.entities = <<Mob>>]

Without(obj, key) == [k \in DOMAIN obj \ {key} |-> obj[k]]
WithKey(obj, key, value) == (key :> value) @@ obj
\* an object with one of its keys dropped, or with a key nobody knows
KeyVariants(obj) == {Without(obj, key) : key \in DOMAIN obj} \cup {WithKey(obj, "notes", <<>>)}

\* FullPlan with the keys of one object changed
SchemaPlans ==
    KeyVariants(FullPlan)
    \cup {[FullPlan EXCEPT !.blocks[1] = v] :
            v \in KeyVariants(Block1) \cup {WithKey(Block1, "material_key", "wall")}}
    \cup {[FullPlan EXCEPT !.jigsaws[1] = v] : v \in KeyVariants(Jig(NorthUp, Stone))}
    \cup {[FullPlan EXCEPT !.block_entities[1] = v] : v \in KeyVariants(Sign)}
    \cup {[FullPlan EXCEPT !.entities[1] = v] : v \in KeyVariants(Mob)}

\* FullPlan with one position triple moved, inside the box or out of it
Spots == {<<1, 0, 2>>, <<2, 0, 0>>, <<0, 1, 0>>, <<0, 0, -1>>}
PositionPlans ==
    {[FullPlan EXCEPT !.blocks[2].pos = pos] : pos \in Spots}
    \cup {[FullPlan EXCEPT !.jigsaws[1].pos = pos] : pos \in Spots}
    \cup {[FullPlan EXCEPT !.block_entities[1].pos = pos] : pos \in Spots}
    \cup {[FullPlan EXCEPT !.entities[1].block_pos = pos] : pos \in Spots}
    \cup {[FullPlan EXCEPT !.entities[1].pos = pos] : pos \in Spots}

\* FullPlan with other attachments: on a plain block, on an empty cell, twice
\* on one cell, from a missing file, from a file without a template compound
AttachPlans ==
    {[FullPlan EXCEPT !.block_entities = attached] :
        attached \in { <<>>,
                       <<Attach(<<1, 0, 2>>, SignFile, SignParams)>>,
                       <<Attach(<<1, 0, 2>>, SignFile, YawParams)>>,
                       <<Attach(<<1, 0, 0>>, DoorFile, <<>>)>>,
                       <<Sign, Attach(<<0, 0, 0>>, DoorFile, SignParams)>>,
                       <<Attach(<<0, 0, 0>>, DoorFile, <<>>), Sign>>,
                       <<Attach(<<0, 0, 0>>, <<"street", ".", "nbt">>, <<>>)>>,
                       <<Attach(<<0, 0, 0>>, BogusFile, <<>>)>> }}

RECURSIVE PlanLists(_)
PlanLists(n) ==
    IF n = 0 THEN {<<>>}
    ELSE {Append(prefix, plan) : prefix \in PlanLists(n - 1), plan \in Curated}

BiomeArgs == {SUPPORTED_BIOMES, <<"desert", "plains">>}
StalePath == <<<<"pokecenter">>, <<"small">>, "plains">>
Disks == {<<>>, StalePath :> <<0>>}

\* ------------------------------------------------------ compiler: the actions
InitCompile ==
    /\ pc = "main"
    /\ \/ /\ plans \in {<<plan>> : plan \in RichPlans}
          /\ argv \in [biomes : {SUPPORTED_BIOMES}, rot : Rotations, mirror : Mirrors]
          /\ files = <<>>
       \/ /\ plans \in UNION {PlanLists(n) : n \in 0..MaxPlans}
          /\ argv \in [biomes : BiomeArgs, rot : {0, 90}, mirror : {"none"}]
          /\ files \in Disks
       \/ /\ plans \in {<<plan>> : plan \in SchemaPlans \cup PositionPlans \cup AttachPlans}
          /\ argv \in [biomes : {<<"desert", "plains">>}, rot : {0, 90}, mirror : {"none", "left_right"}]
          /\ files = <<>>
    /\ pi = 0 /\ bi = 0 /\ compiled = 0
    /\ built = Pending
    /\ report = <<>>
    /\ exit_code = -1
    /\ CodecIdle /\ XfIdle /\ GramIdle /\ RegionIdle /\ SectionIdle /\ JobsIdle /\ AdminIdle

\* main returning 0 from its except clause as well
main_return_zero(raised) == 0

\* the value main returns: 1 from the except clause, 0 after "[done]"
main_return(raised) == IF raised THEN 1 ELSE 0

\* except StructgenError as e: print("[error] ..."); return 1
Raise(e) ==
    /\ report' = Append(report, <<"error", e.err>>)
    /\ exit_code' = main_return(TRUE)
    /\ pc' = "exit"

\* main up to the first plan of compile_all
Main ==
    /\ pc = "main"
    /\ IF Len(plans) = 0
       THEN Raise(Err("no plan files found")) /\ UNCHANGED <<pi, compiled>>
       ELSE pc' = "plan" /\ pi' = 1 /\ compiled' = 0 /\ UNCHANGED <<report, exit_code>>
    /\ UNCHANGED <<plans, argv, bi, built, files, codecVars, xfVars, gramVars, regionVars, sectionVars, jobVars, adminVars>>

\* the head of the loop over plan_files: load, validate, derive the variant
load_plan(plan) ==
    AndThen(validate_plan_shape(plan),
        IF Strip(plan.type) = <<>> \/ Strip(plan.id) = <<>> THEN Err("invalid type/id")
        ELSE IF plan_variant(plan) = <<>> THEN Err("empty variant after normalization")
        ELSE Ok)

LoadPlan ==
    /\ pc = "plan" /\ pi <= Len(plans)
    /\ \E loaded \in {load_plan(plans[pi])} :
         IF IsErr(loaded)
         THEN Raise(loaded) /\ UNCHANGED bi
         ELSE pc' = "unit" /\ bi' = 1 /\ UNCHANGED <<report, exit_code>>
    /\ UNCHANGED <<plans, argv, pi, compiled, built, files, codecVars, xfVars, gramVars, regionVars, sectionVars, jobVars, adminVars>>

\* the body of the loop over biomes, up to the bytes written
compile_unit(plan, biome, rot, mirror) ==
    Then(build_structure(plan, biome, ALLOWED, TEMPLATES, rot, mirror), LAMBDA b :
    Then(write_nbt(TextTree(structure_root(b.size, b.blocks, b.entities))), LAMBDA w :
         [built |-> b, bytes |-> w.val]))

\* for warning in warnings: print(warning, file=sys.stderr), after the loop
\* over biomes: every unit of the plan appended its own
RECURSIVE plan_warnings(_, _)
plan_warnings(plan, units) ==
    IF units = 0 THEN <<>>
    ELSE unit_warnings(plan, TEMPLATES, 1) \o plan_warnings(plan, units - 1)

CompileUnit ==
    /\ pc = "unit"
    /\ \E u \in {compile_unit(plans[pi], argv.biomes[bi], argv.rot, argv.mirror)} :
           IF IsErr(u)
           THEN Raise(u) /\ UNCHANGED <<pi, bi, compiled, built, files>>
           ELSE /\ files' = (out_path(plans[pi], argv.biomes[bi]) :> u.bytes) @@ files
                /\ built' = u.built
                /\ compiled' = compiled + 1
                /\ IF bi < Len(argv.biomes)
                   THEN /\ report' = Append(report, <<"ok", pi, argv.biomes[bi]>>)
                        /\ bi' = bi + 1 /\ UNCHANGED <<pc, pi>>
                   ELSE /\ report' = Append(report, <<"ok", pi, argv.biomes[bi]>>)
                                        \o plan_warnings(plans[pi], Len(argv.biomes))
                        /\ pc' = "plan" /\ pi' = pi + 1 /\ UNCHANGED bi
                /\ UNCHANGED exit_code
    /\ UNCHANGED <<plans, argv, codecVars, xfVars, gramVars, regionVars, sectionVars, jobVars, adminVars>>

\* compile_all returns: print("[done] ..."); return 0
Finish ==
    /\ pc = "plan" /\ pi > Len(plans)
    /\ report' = Append(report, <<"done", compiled>>)
    /\ exit_code' = main_return(FALSE)
    /\ pc' = "exit"
    /\ UNCHANGED <<plans, argv, pi, bi, compiled, built, files, codecVars, xfVars, gramVars, regionVars, sectionVars, jobVars, adminVars>>

NextCompile == Main \/ LoadPlan \/ CompileUnit \/ Finish

SpecCompile == InitCompile /\ [][NextCompile]_vars

\* ------------------------------------------------------- compiler: claims
FiveBiomes == {"plains", "desert", "savanna", "snowy", "taiga"}

\* the (plan, biome) units the invocation asks for
Units == {<<i, n>> : i \in 1..Len(plans), n \in 1..Len(argv.biomes)}
Reported(i, biome) == \E k \in 1..Len(report) : report[k] = <<"ok", i, biome>>
ErrorReported == \E k \in 1..Len(report) : report[k][1] = "error"

\* the unit whose structure is in built: the last "[ok]" line
LastOk == report[CHOOSE k \in 1..Len(report) :
                    /\ report[k][1] = "ok"
                    /\ \A later \in (k + 1)..Len(report) : report[later][1] # "ok"]

\* C3: failure isolation.  When main has returned, every requested unit that
\* loads and compiles on its own has been compiled and reported "[ok]", whatever
\* happened to the other units, and a failure of some unit is in the report.
FailureIsolation ==
    pc = "exit" =>
        \A u \in Units :
            IF ~IsErr(load_plan(plans[u[1]]))
               /\ ~IsErr(compile_unit(plans[u[1]], argv.biomes[u[2]], argv.rot, argv.mirror))
            THEN Reported(u[1], argv.biomes[u[2]])
            ELSE ErrorReported

\* C4: a failing unit writes nothing and decides the exit code.  The step that
\* raises leaves every file as it was; main returns 0 only when every requested
\* unit was reported and its file is there, and non-zero when an error was reported.
FailedUnitWritesNothing ==
    /\ [][pc' = "exit" /\ exit_code' # 0 => files' = files]_vars
    /\ [](pc = "exit" =>
            /\ exit_code \in {0, 1}
            /\ exit_code = 0 =>
                 \A u \in Units :
                    /\ Reported(u[1], argv.biomes[u[2]])
                    /\ out_path(plans[u[1]], argv.biomes[u[2]]) \in DOMAIN files
            /\ ErrorReported => exit_code # 0
            /\ exit_code # 0 => ErrorReported)

\* a run that wrote some units, then failed on a unit whose stale file is intact
FailedUnitWitness ==
    /\ pc = "exit" /\ exit_code = 1 /\ compiled > 0
    /\ pi = 2 /\ plans[2].id = SmallId /\ argv.biomes[1] = "plains"
    /\ StalePath \in DOMAIN files
    /\ files[StalePath] = <<0>>

StairsFacingEast == <<"minecraft", ":", "oak", "_", "stairs", "[", "facing", "=", "east", ",",
                      "half", "=", "bottom", "]">>
StairsFacingSouth == <<"minecraft", ":", "oak", "_", "stairs", "[", "facing", "=", "south", ",",
                       "half", "=", "bottom", "]">>

\* the blocks of a plan that carry facing=east and that no later block or jigsaw replaces
EastStairs(plan) ==
    {n \in 1..Len(plan.blocks) :
        /\ "material_key" \notin DOMAIN plan.blocks[n]
        /\ plan.blocks[n].state = Stairs(East)
        /\ \A later \in (n + 1)..Len(plan.blocks) : plan.blocks[later].pos # plan.blocks[n].pos
        /\ \A j \in 1..Len(plan.jigsaws) : plan.jigsaws[j].pos # plan.blocks[n].pos}

Emitted(pos, state) ==
    \E m \in 1..Len(built.blocks) : built.blocks[m].pos = pos /\ built.blocks[m].state = state

\* C7: scenario B.  A compiled structure has the size of its plan at rot=0 and
\* that size with x and z swapped at rot=90; a facing=east block comes out as
\* facing=south at (z, y, sx-1-x) at rot=90 without mirror, and stays facing=east,
\* at (x, y, sz-1-z), under left_right at rot=0.
ScenarioB ==
    built # Pending =>
        LET plan == plans[LastOk[2]]
            size == plan.size
        IN  /\ argv.rot = 0 => built.size = size
            /\ argv.rot = 90 => built.size = <<size[3], size[2], size[1]>>
            /\ \A n \in EastStairs(plan) :
                 LET pos == plan.blocks[n].pos IN
                 /\ (argv.rot = 90 /\ argv.mirror = "none")
                       => Emitted(<<pos[3], pos[2], (size[1] - 1) - pos[1]>>, StairsFacingSouth)
                 /\ (argv.rot = 0 /\ argv.mirror = "left_right")
                       => Emitted(<<pos[1], pos[2], (size[3] - 1) - pos[3]>>, StairsFacingEast)

ScenarioBWitness ==
    /\ built # Pending
    /\ argv.rot = 90 /\ argv.mirror = "none"
    /\ EastStairs(plans[LastOk[2]]) # {}
    /\ built.size = <<3, 1, 2>>
    /\ Emitted(<<2, 0, 0>>, StairsFacingSouth)

\* name, properties and values of a state are all listed in allowed_blocks
Listed(state) ==
    LET parsed == parse_block_state(state) IN
    /\ ~IsErr(parsed)
    /\ parsed.name \in DOMAIN ALLOWED
    /\ \A n \in 1..Len(parsed.props) :
         /\ parsed.props[n][1] \in DOMAIN ALLOWED[parsed.name]
         /\ parsed.props[n][2] \in ALLOWED[parsed.name][parsed.props[n][1]]

PaletteBiomesExact ==
    /\ pc = "unit" => DOMAIN plans[pi].palette_refs = FiveBiomes
    /\ (pc = "exit" /\ pi \in 1..Len(plans) /\ "palette_refs" \in DOMAIN plans[pi]
            /\ DOMAIN plans[pi].palette_refs # FiveBiomes)
          => exit_code = 1 /\ \A n \in 1..Len(argv.biomes) : ~Reported(pi, argv.biomes[n])

PaletteBiomesWitness ==
    /\ pc = "exit" /\ exit_code = 1
    /\ pi = 1 /\ "jungle" \in DOMAIN plans[1].palette_refs
    /\ report = << <<"error", "palette_refs must contain exactly the biomes">> >>

\* the blocks of a plan whose material_key some supported biome does not define
Unmapped(plan) ==
    {n \in (IF {"blocks", "palette_refs"} \subseteq DOMAIN plan THEN 1..Len(plan.blocks) ELSE {}) :
        /\ "material_key" \in DOMAIN plan.blocks[n]
        /\ \E biome \in FiveBiomes \cap DOMAIN plan.palette_refs :
              plan.blocks[n].material_key \notin DOMAIN plan.palette_refs[biome]}

\* C10: every material_key of a validated plan is in every biome's palette.  A
\* plan that validate_plan_shape accepted has no unmapped block, no unit ever
\* fails on a missing palette mapping, and a plan with an unmapped block ends the
\* run at validation, before any of its units is compiled.
MaterialKeyEverywhere ==
    /\ pc = "unit" => Unmapped(plans[pi]) = {}
    /\ \A k \in 1..Len(report) : report[k] # <<"error", "missing palette mapping for material_key">>
    /\ (pc = "exit" /\ pi \in 1..Len(plans) /\ Unmapped(plans[pi]) # {})
          => exit_code = 1 /\ \A n \in 1..Len(argv.biomes) : ~Reported(pi, argv.biomes[n])

\* a validated plan with material keys, compiled for the last biome
MaterialKeyWitness ==
    /\ pc = "exit" /\ exit_code = 0
    /\ \E n \in 1..Len(plans[1].blocks) : "material_key" \in DOMAIN plans[1].blocks[n]
    /\ Reported(1, "taiga")

\* an object carries every required key and no key outside required and optional
ExactKeys(obj, required, optional) ==
    /\ required \subseteq DOMAIN obj
    /\ DOMAIN obj \subseteq (required \cup optional)

\* the plan root and every block, jigsaw, block_entity and entity object of the
\* plan have exactly an allowed key set
ClosedPlan(plan) ==
    /\ ExactKeys(plan, PlanKeys, {})
    /\ \A n \in 1..Len(plan.blocks) : ExactKeys(plan.blocks[n], {"pos", "state"}, {"material_key"})
    /\ \A n \in 1..Len(plan.jigsaws) :
          ExactKeys(plan.jigsaws[n],
                    {"pos", "name", "target", "pool", "final_state", "joint", "orientation"}, {})
    /\ \A n \in 1..Len(plan.block_entities) :
          ExactKeys(plan.block_entities[n], {"pos", "template", "params"}, {})
    /\ \A n \in 1..Len(plan.entities) :
          ExactKeys(plan.entities[n], {"pos", "block_pos", "template", "params"}, {})

\* C11: the plan schema is closed.  A plan that validate_plan_shape accepted has
\* exactly an allowed key set at its root and in every block, jigsaw,
\* block_entity and entity object; a plan with an unknown key or without a
\* required key in any of them ends the run at validation, with no unit compiled.
ClosedSchema ==
    /\ pc = "unit" => ClosedPlan(plans[pi])
    /\ (pc = "exit" /\ pi \in 1..Len(plans) /\ ~ClosedPlan(plans[pi]))
          => exit_code = 1 /\ \A n \in 1..Len(argv.biomes) : ~Reported(pi, argv.biomes[n])

\* an entity object with a key nobody knows stopped the run
ClosedSchemaWitness ==
    /\ pc = "exit" /\ exit_code = 1 /\ pi = 1
    /\ ExactKeys(plans[1], PlanKeys, {})
    /\ Len(plans[1].entities) = 1
    /\ "notes" \in DOMAIN plans[1].entities[1]
    /\ report = << <<"error", "unknown keys">> >>

\* a position triple lies within [0, size) on all three axes
Inside(pos, size) == \A a \in 1..3 : 0 <= pos[a] /\ pos[a] < size[a]

\* every position triple of a plan with a closed schema lies inside its box
PositionsInside(plan) ==
    /\ \A n \in 1..Len(plan.blocks) : Inside(plan.blocks[n].pos, plan.size)
    /\ \A n \in 1..Len(plan.jigsaws) : Inside(plan.jigsaws[n].pos, plan.size)
    /\ \A n \in 1..Len(plan.block_entities) : Inside(plan.block_entities[n].pos, plan.size)
    /\ \A n \in 1..Len(plan.entities) :
          Inside(plan.entities[n].block_pos, plan.size) /\ Inside(plan.entities[n].pos, plan.size)

BuiltPlan == plans[LastOk[2]]
BuiltBiome == LastOk[3]

\* where an entry of the plan ends up, and the state a blocks entry is emitted as
Moved(pos) == transform_pos(pos, BuiltPlan.size, argv.rot, argv.mirror)
BlockState(block) ==
    transform_state(IF "material_key" \in DOMAIN block
                    THEN BuiltPlan.palette_refs[BuiltBiome][block.material_key]
                    ELSE block.state,
                    argv.rot, argv.mirror).val
JigsawState(j) ==
    canonical_state(JIGSAW_NAME,
                    << <<ORIENTATION, transform_orientation(j.orientation, argv.rot, argv.mirror)>> >>)

\* C13: last write wins.  A compiled structure has at most one block per
\* position; a cell that only blocks entries map to carries the state of the
\* last of them in plan order; a cell a jigsaw maps to carries the state of the
\* last such jigsaw, whatever block was placed there before.
LastWriteWins ==
    built # Pending =>
        /\ \A m, n \in 1..Len(built.blocks) : built.blocks[m].pos = built.blocks[n].pos => m = n
        /\ \A n \in 1..Len(BuiltPlan.blocks) :
              (/\ \A later \in (n + 1)..Len(BuiltPlan.blocks) :
                     BuiltPlan.blocks[later].pos # BuiltPlan.blocks[n].pos
               /\ \A j \in 1..Len(BuiltPlan.jigsaws) :
                     BuiltPlan.jigsaws[j].pos # BuiltPlan.blocks[n].pos)
              => Emitted(Moved(BuiltPlan.blocks[n].pos), BlockState(BuiltPlan.blocks[n]))
        /\ \A j \in 1..Len(BuiltPlan.jigsaws) :
              (\A later \in (j + 1)..Len(BuiltPlan.jigsaws) :
                     BuiltPlan.jigsaws[later].pos # BuiltPlan.jigsaws[j].pos)
              => Emitted(Moved(BuiltPlan.jigsaws[j].pos), JigsawState(BuiltPlan.jigsaws[j]))
        /\ Len(built.blocks)
              = Cardinality({BuiltPlan.blocks[n].pos : n \in 1..Len(BuiltPlan.blocks)}
                            \cup {BuiltPlan.jigsaws[j].pos : j \in 1..Len(BuiltPlan.jigsaws)})

\* stairs and then a wall at one position, a jigsaw on the stone of another:
\* the rotated structure has the wall and the jigsaw, and nothing else
LastWriteWinsWitness ==
    /\ built # Pending /\ argv.rot = 90 /\ argv.mirror = "none"
    /\ Len(BuiltPlan.blocks) = 2
    /\ BuiltPlan.blocks[1] = [pos |-> <<1, 0, 2>>, state |-> Stairs(East)]
    /\ BuiltPlan.blocks[2] = [pos |-> <<1, 0, 2>>, state |-> Stone, material_key |-> "wall"]
    /\ BuiltBiome = "plains"
    /\ Len(built.blocks) = 2
    /\ Emitted(<<2, 0, 0>>, Stone)
    /\ Emitted(<<0, 0, 1>>, Jigsaw(<<"east", "_", "up">>))

\* the cells the blocks and jigsaws entries of a plan occupy, in plan coordinates
Occupied(plan) ==
    {plan.blocks[n].pos : n \in 1..Len(plan.blocks)}
    \cup {plan.jigsaws[j].pos : j \in 1..Len(plan.jigsaws)}

\* the block_entities entries of a plan that sit on no placed block
Unplaced(plan) == {n \in 1..Len(plan.block_entities) : plan.block_entities[n].pos \notin Occupied(plan)}

\* the structure of the same unit compiled without its block_entities entries
Bare == build_structure([BuiltPlan EXCEPT !.block_entities = <<>>], BuiltBiome,
                        ALLOWED, TEMPLATES, argv.rot, argv.mirror)

\* the resolved template tree of a block_entities entry, as <<key, value>> items
Resolved(be) ==
    PyVal(apply_params(load_template_compound(TEMPLATES[be.template]).val,
                       transformed_params(be.params, argv.rot, argv.mirror)))

\* the block_entities entries attached at a position of the compiled structure
AttachedAt(pos) ==
    {n \in 1..Len(BuiltPlan.block_entities) : Moved(BuiltPlan.block_entities[n].pos) = pos}

\* the data a cell must carry: per key, the value of the last attached template
\* that has the key, else the value the cell had before any attachment
MergedAs(nbt, before, attached) ==
    LET old == IF before = None THEN <<>> ELSE PyVal(before)
        has(n, key) == \E i \in 1..Len(Resolved(BuiltPlan.block_entities[n])) :
                           Resolved(BuiltPlan.block_entities[n])[i][1] = key
        keys == PropKeys(old)
                \cup UNION {PropKeys(Resolved(BuiltPlan.block_entities[n])) : n \in attached}
    IN  /\ nbt # None
        /\ DictKeys(nbt) = keys
        /\ \A key \in keys :
              LET from == {n \in attached : has(n, key)}
              IN  DictGet(nbt, key)
                    = IF from = {} THEN PropGet(old, key)
                      ELSE PropGet(Resolved(BuiltPlan.block_entities[
                                       CHOOSE n \in from : \A o \in from : o <= n]), key)

\* the compiled structure against the structure without attachments: the
\* same cells with the same states, the data untouched or merged
AttachedOnto(bare) ==
    /\ Len(built.blocks) = Len(bare.blocks)
    /\ \A m \in 1..Len(built.blocks) :
          /\ built.blocks[m].pos = bare.blocks[m].pos
          /\ built.blocks[m].state = bare.blocks[m].state
          /\ IF AttachedAt(built.blocks[m].pos) = {}
             THEN built.blocks[m].nbt = bare.blocks[m].nbt
             ELSE MergedAs(built.blocks[m].nbt, bare.blocks[m].nbt,
                           AttachedAt(built.blocks[m].pos))

\* C14: block-entity attachment.  A compiled structure has every block_entities
\* entry on a cell that a blocks or jigsaws entry placed; each cell keeps the
\* position and block state it has without the attachments; a cell with
\* attachments carries its earlier data merged with the resolved templates, the
\* template keys overriding; a validated plan with an attachment on an empty
\* cell ends the run with an error and none of its units compiled.
AttachmentMerges ==
    /\ built # Pending =>
          /\ Unplaced(BuiltPlan) = {}
          /\ \A bare \in {Bare} : AttachedOnto(bare)
    /\ (pc = "exit" /\ pi \in 1..Len(plans) /\ ~IsErr(load_plan(plans[pi]))
          /\ Unplaced(plans[pi]) # {})
          => exit_code = 1 /\ \A n \in 1..Len(argv.biomes) : ~Reported(pi, argv.biomes[n])

\* the sign attached to the jigsaw cell of a rotated run: the template's name
\* replaced the jigsaw's, the jigsaw's target stayed, the facing turned
AttachmentWitness ==
    /\ built # Pending /\ argv.rot = 90 /\ argv.mirror = "none"
    /\ BuiltPlan = FullPlan
    /\ \E m \in 1..Len(built.blocks) :
          /\ built.blocks[m].pos = <<0, 0, 1>>
          /\ built.blocks[m].state = Jigsaw(<<"east", "_", "up">>)
          /\ DictGet(built.blocks[m].nbt, <<"name">>) = PyStr(<<"acm", ":", "1", "2">>)
          /\ DictGet(built.blocks[m].nbt, <<"target">>) = PyStr(Door)
          /\ DictGet(built.blocks[m].nbt, FACING) = PyStr(<<"south">>)

\* the root _structure_root builds for the structure in built, its palette
\* entries and its block entries
BuiltRoot == structure_root(built.size, built.blocks, built.entities)
RootPalette == PyVal(DictGet(BuiltRoot, <<"palette">>))
RootBlocks == PyVal(DictGet(BuiltRoot, <<"blocks">>))

\* a palette entry is exactly a block state: its Name, and its Properties in
\* ascending key order when it has any
EntryIs(entry, state) ==
    LET parsed == parse_block_state(state) IN
    /\ DictGet(entry, <<"Name">>) = PyStr(parsed.name)
    /\ IF parsed.props = <<>>
       THEN DictKeys(entry) = {<<"Name">>}
       ELSE /\ DictKeys(entry) = {<<"Name">>, <<"Properties">>}
            /\ LET listed == PyVal(DictGet(entry, <<"Properties">>)) IN
               /\ PropKeys(listed) = PropKeys(parsed.props)
               /\ Len(listed) = Len(parsed.props)
               /\ \A i \in 1..Len(listed) :
                     /\ listed[i][2] = PyStr(PropGet(parsed.props, listed[i][1]))
                     /\ i > 1 => StrLess(listed[i - 1][1], listed[i][1])

\* index of the first block that refers to palette entry i (counted from 1)
FirstUse(blocks, i) ==
    CHOOSE n \in 1..Len(blocks) :
        /\ PyVal(DictGet(blocks[n], <<"state">>)) = i - 1
        /\ \A o \in 1..(n - 1) : PyVal(DictGet(blocks[o], <<"state">>)) # i - 1

\* a palette and a block list of a root: no palette entry twice, every block
\* pointing at its own state, every entry used, entries in order of first use
Deduplicated(palette, blocks) ==
    /\ \A i, j \in 1..Len(palette) : palette[i] = palette[j] => i = j
    /\ Len(blocks) = Len(built.blocks)
    /\ \A n \in 1..Len(blocks) :
          LET idx == PyVal(DictGet(blocks[n], <<"state">>)) IN
          /\ 0 <= idx /\ idx < Len(palette)
          /\ EntryIs(palette[idx + 1], built.blocks[n].state)
    /\ \A i \in 1..Len(palette) :
          \E n \in 1..Len(blocks) : PyVal(DictGet(blocks[n], <<"state">>)) = i - 1
    /\ \A i, j \in 1..Len(palette) : i < j => FirstUse(blocks, i) < FirstUse(blocks, j)

\* C15: palette deduplication.  In the root of every compiled structure no two
\* palette entries are the same block state, every entry is used and the entries
\* stand in order of first use over the block list, and the state index of
\* every block lies within the palette and points at the block's own state.
PaletteDeduplicated ==
    built # Pending =>
        \A root \in {BuiltRoot} :
            Deduplicated(PyVal(DictGet(root, <<"palette">>)), PyVal(DictGet(root, <<"blocks">>)))

\* three blocks, the last two the same stairs: two palette entries
PaletteWitness ==
    /\ built # Pending /\ argv.rot = 0 /\ argv.mirror = "none"
    /\ Len(built.blocks) = 3
    /\ built.blocks[2].state = built.blocks[3].state
    /\ built.blocks[3].state = StairsFacingEast
    /\ Len(RootPalette) = 2
    /\ PyVal(DictGet(RootBlocks[2], <<"state">>)) = 1
    /\ PyVal(DictGet(RootBlocks[3], <<"state">>)) = 1

\* ------------------------------------------------- grammar: inputs, actions
Seg(key, value) == key \o <<"=">> \o value
Bracketed(name, segments) == name \o <<"[">> \o Join(segments, ",") \o <<"]">>

OakStairs == <<"minecraft", ":", "oak", "_", "stairs">>
OakLog == <<"minecraft", ":", "oak", "_", "log">>
JigsawBlock == <<"minecraft", ":", "jigsaw">>
HalfTop == Seg(<<"half">>, <<"top">>)
Waterlogged == Seg(<<"waterlogged">>, <<"true">>)
Red == Seg(<<"color">>, <<"red">>)

\* state strings parse_block_state accepts without any clause of them being
\* empty, most of them with their properties out of key order
WellFormedTexts ==
    {Stone, <<" ">> \o Stone \o <<" ">>}
    \cup {Bracketed(OakStairs, <<Waterlogged, HalfTop, Seg(FACING, d)>>) :
             d \in {<<"north">>, <<"east">>, <<"up">>, <<"big">>}}
    \cup {Bracketed(Stone, <<Waterlogged, Seg(HORIZONTAL_FACING, d)>>) :
             d \in {<<"west">>, <<"south">>}}
    \cup {Bracketed(JigsawBlock, <<Seg(ORIENTATION, o)>>) :
             o \in {<<"north", "_", "up">>, <<"down", "_", "east">>,
                    <<"big", "_", "west">>, <<"south">>}}
    \cup {Bracketed(OakLog, <<Red, Seg(AXIS, <<a>>)>>) : a \in {"x", "y", "z", "big"}}
    \cup {Bracketed(OakStairs, <<<<" ">> \o HalfTop \o <<" ">>,
                                 <<"facing", " ", "=", " ", "south">>>>),
          Bracketed(Stone, <<Seg(<<"target">>, <<"north">>), Red>>),
          Bracketed(Stone, <<Seg(<<"color">>, <<"red", "=", "x">>)>>),
          Bracketed(Stone, <<Seg(<<"color">>, <<"red", "]">>)>>)}

\* a bracket clause that is opened and not closed, or closed and not opened
UnclosedBracket ==
    {Stone \o <<"[">>,
     OakStairs \o <<"[">> \o Seg(FACING, <<"north">>),
     Stone \o <<"]">>}
\* a bracket clause with nothing in it
EmptyBracket == {Bracketed(Stone, <<>>), Stone \o <<"[", " ", "]">>}
\* nothing between two commas, or after the last one
EmptySegment ==
    {Bracketed(OakStairs, <<Seg(FACING, <<"north">>), <<>>, HalfTop>>),
     Bracketed(OakStairs, <<HalfTop, <<>>>>)}
\* a property segment that has no "="
NoEquals ==
    {Bracketed(OakStairs, <<<<"facing">>, HalfTop>>),
     Bracketed(Stone, <<<<"waterlogged">>>>)}
\* a property key that occurs twice
DuplicateKey ==
    {Bracketed(OakStairs, <<Seg(FACING, <<"north">>), Seg(FACING, <<"east">>)>>),
     Bracketed(OakStairs, <<HalfTop, Seg(FACING, <<"north">>), HalfTop>>)}
Malformed == UnclosedBracket \cup EmptyBracket \cup EmptySegment \cup NoEquals \cup DuplicateKey

\* a name without its namespace, a segment without its key or its value
OtherTexts ==
    {<<"stone">>,
     Bracketed(Stone, <<<<"=", "north">>>>),
     Bracketed(Stone, <<<<"facing", "=">>>>)}

StateTexts == WellFormedTexts \cup Malformed \cup OtherTexts

Perms(n) == {p \in [1..n -> 1..n] : \A i, j \in 1..n : p[i] = p[j] => i = j}

\* the string s with the segments of its bracket clause in the order p
Reordered(s, p) ==
    LET at == Find(s, "[")
        segments == Split(SubSeq(s, at + 1, Len(s) - 1), ",")
    IN  SubSeq(s, 1, at) \o Join([i \in 1..Len(segments) |-> segments[p[i]]], ",") \o <<"]">>
SegmentCount(s) ==
    LET at == Find(s, "[")
    IN  IF at = 0 THEN 0 ELSE Len(Split(SubSeq(s, at + 1, Len(s) - 1), ","))

InitGrammar ==
    /\ pc = "grammar"
    /\ text \in StateTexts
    /\ how = "given"
    /\ parse_out = Pending /\ legacy = Pending
    /\ canon = Pending /\ prev = Pending /\ moved = Pending
    /\ CodecIdle /\ XfIdle /\ CompIdle /\ RegionIdle /\ SectionIdle /\ JobsIdle /\ AdminIdle

\* parse_block_state(text)
Parse ==
    /\ pc = "grammar"
    /\ parse_out = Pending
    /\ parse_out' = parse_block_state(text)
    /\ UNCHANGED <<pc, text, how, legacy, canon, prev, moved,
                   codecVars, xfVars, compVars, regionVars, sectionVars, jobVars, adminVars>>

\* the converter's _parse_block_state(text)
ParseMcedit ==
    /\ pc = "grammar"
    /\ legacy = Pending
    /\ legacy' = parse_block_state_mcedit(text)
    /\ UNCHANGED <<pc, text, how, parse_out, canon, prev, moved,
                   codecVars, xfVars, compVars, regionVars, sectionVars, jobVars, adminVars>>

\* canonical_state(name, props) on what parse_block_state returned
Canonicalize ==
    /\ pc = "grammar"
    /\ parse_out # Pending /\ ~IsErr(parse_out)
    /\ canon = Pending
    /\ canon' = [val |-> canonical_state(parse_out.name, parse_out.props)]
    /\ UNCHANGED <<pc, text, how, parse_out, legacy, prev, moved,
                   codecVars, xfVars, compVars, regionVars, sectionVars, jobVars, adminVars>>

\* the canonical string is fed back in as the next input
Again ==
    /\ pc = "grammar"
    /\ how = "given" /\ canon # Pending
    /\ text' = canon.val
    /\ how' = "canonical"
    /\ prev' = canon
    /\ parse_out' = Pending /\ legacy' = Pending /\ canon' = Pending /\ moved' = Pending
    /\ UNCHANGED <<pc, codecVars, xfVars, compVars, regionVars, sectionVars, jobVars, adminVars>>

\* the same string with its property segments in another order is the next input
Shuffle ==
    /\ pc = "grammar"
    /\ how = "given" /\ canon # Pending
    /\ SegmentCount(text) >= 2
    /\ \E p \in Perms(SegmentCount(text)) :
          /\ Reordered(text, p) # text
          /\ text' = Reordered(text, p)
    /\ how' = "shuffled"
    /\ prev' = canon
    /\ parse_out' = Pending /\ legacy' = Pending /\ canon' = Pending /\ moved' = Pending
    /\ UNCHANGED <<pc, codecVars, xfVars, compVars, regionVars, sectionVars, jobVars, adminVars>>

\* transform_state(text, rot, mirror)
Transform ==
    /\ pc = "grammar"
    /\ moved = Pending
    /\ \E rot \in Rotations, mirror \in Mirrors :
          moved' = [rot |-> rot, mirror |-> mirror, out |-> transform_state(text, rot, mirror)]
    /\ UNCHANGED <<pc, text, how, parse_out, legacy, canon, prev,
                   codecVars, xfVars, compVars, regionVars, sectionVars, jobVars, adminVars>>

NextGrammar == Parse \/ ParseMcedit \/ Canonicalize \/ Again \/ Shuffle \/ Transform

SpecGrammar == InitGrammar /\ [][NextGrammar]_vars

\* ------------------------------------------------------- grammar: the claims
\* the canonical spelling of a name and a props dict, said without the code:
\* the bare name when there are no properties, otherwise the name and one
\* bracket clause holding every item once, keys strictly ascending
IsCanonicalOf(str, name, props) ==
    IF props = <<>> THEN str = name
    ELSE \E order \in Perms(Len(props)) :
            /\ \A i \in 2..Len(props) : StrLess(props[order[i - 1]][1], props[order[i]][1])
            /\ str = Bracketed(name, [i \in 1..Len(props) |->
                                         Seg(props[order[i]][1], props[order[i]][2])])

\* C16: canonicalization is idempotent and order-independent.  The canonical
\* string of a valid state parses again and canonicalizes to itself, a string
\* that differs from a valid one only in the order of its property segments
\* canonicalizes to the same string, and the canonical string has its keys
\* sorted and no bracket clause when there are no properties.
CanonicalizationStable ==
    pc = "grammar" =>
        /\ (how \in {"canonical", "shuffled"} /\ parse_out # Pending) => ~IsErr(parse_out)
        /\ (how \in {"canonical", "shuffled"} /\ canon # Pending) => canon = prev
        /\ canon # Pending => IsCanonicalOf(canon.val, parse_out.name, parse_out.props)

\* three properties given out of key order, reordered, canonicalized to the
\* same sorted string as before
CanonicalizationWitness ==
    /\ pc = "grammar" /\ how = "shuffled"
    /\ canon # Pending /\ canon = prev
    /\ Len(parse_out.props) = 3
    /\ text # canon.val
    /\ canon.val = Bracketed(OakStairs, <<Seg(FACING, <<"east">>), HalfTop, Waterlogged>>)

\* C17: parse_block_state returns no value for a string with a malformed
\* bracket clause (unclosed, stray or empty), with a property segment that has
\* no "=" (an empty segment between commas included) or with a property key
\* that occurs twice; so does the converter's copy of the parser.
ParseRejectsMalformed ==
    (pc = "grammar" /\ how = "given" /\ text \in Malformed) =>
        /\ parse_out # Pending => IsErr(parse_out)
        /\ legacy # Pending => IsErr(legacy)

\* the part of an orientation before and after its first "_"
FirstPart(o) == SubSeq(o, 1, Find(o, "_") - 1)
SecondPart(o) == SubSeq(o, Find(o, "_") + 1, Len(o))

\* C18: transform_state changes only the directional properties.  For every
\* rot and mirror the block name and the set of property keys are unchanged,
\* every property other than facing, horizontal_facing, orientation and axis
\* keeps its value, a facing or an orientation component that is not one of
\* the four horizontal directions keeps its value, and axis is x <-> z swapped
\* exactly under rot 90 / 270, whatever the mirror.
DirectionalOnly ==
    (pc = "grammar" /\ moved # Pending /\ ~IsErr(moved.out)) =>
        LET before == parse_block_state(text)
            after == parse_block_state(moved.out.val)
        IN  /\ ~IsErr(after)
            /\ after.name = before.name
            /\ PropKeys(after.props) = PropKeys(before.props)
            /\ \A key \in PropKeys(before.props) :
                  LET old == PropGet(before.props, key)
                      new == PropGet(after.props, key)
                  IN  /\ key \notin {FACING, HORIZONTAL_FACING, ORIENTATION, AXIS} => new = old
                      /\ (key \in {FACING, HORIZONTAL_FACING} /\ ~IsHorizontal(old)) => new = old
                      /\ (key = ORIENTATION /\ Find(old, "_") = 0) => new = old
                      /\ (key = ORIENTATION /\ Find(old, "_") > 0) =>
                            /\ Find(new, "_") > 0
                            /\ ~IsHorizontal(FirstPart(old)) => FirstPart(new) = FirstPart(old)
                            /\ ~IsHorizontal(SecondPart(old)) => SecondPart(new) = SecondPart(old)
                      /\ key = AXIS =>
                            new = (IF moved.rot \in {90, 270} /\ old = <<"x">> THEN <<"z">>
                                   ELSE IF moved.rot \in {90, 270} /\ old = <<"z">> THEN <<"x">>
                                   ELSE old)

\* a red log along x, turned 90 degrees and mirrored: axis becomes z, the colour stays
DirectionalOnlyWitness ==
    /\ pc = "grammar" /\ moved # Pending
    /\ moved.rot = 90 /\ moved.mirror = "left_right"
    /\ text = Bracketed(OakLog, <<Red, Seg(AXIS, <<"x">>)>>)
    /\ moved.out = [val |-> Bracketed(OakLog, <<Seg(AXIS, <<"z">>), Red>>)]

\* ------------------------------------------------------------ region reader
\* infra/world_tools.py, infra/prefab-score.py (the same RegionFile class),
\* infra/waystones-backfill-villages.py and infra/world-height-at.py.
\* A region file is [len, data]: its length and its bytes by offset from 0,
\* the offsets that are not in data holding 0.
SECTOR_BYTES == 4096
REGION_HEADER_BYTES == SECTOR_BYTES * 2

ByteAt(f, i) == IF i \in DOMAIN f.data THEN f.data[i] ELSE 0
\* b[lo:hi] on the bytes of the file; f.seek(lo) and f.read(hi - lo)
Slice(f, lo, hi) ==
    With(Min(hi, f.len), LAMBDA end :
         IF lo >= end THEN <<>> ELSE [i \in 1..(end - lo) |-> ByteAt(f, lo + i - 1)])
\* struct.unpack(">I", b)
dec_u32(b) == (b[1] * 16777216) + (b[2] * 65536) + (b[3] * 256) + b[4]

\* zlib container, reduced to its framing: the two header bytes, the stored
\* payload and the checksum trailer (length mod 256 kept as one byte)
ZlibCompress(raw) == <<120, 156>> \o raw \o <<Len(raw) % 256>>
\* zlib.decompress: zlib.error on a wrong header, a short stream or a wrong trailer
ZlibDecompress(b) ==
    IF Len(b) < 3 \/ b[1] # 120 \/ b[2] # 156 THEN Err("zlib.error")
    ELSE With(SubSeq(b, 3, Len(b) - 1), LAMBDA body :
              IF b[Len(b)] # Len(body) % 256 THEN Err("zlib.error") ELSE [val |-> body])

\* a decompressed payload as the bytes object the reader returns
Returned(z) == Then(z, LAMBDA r : [val |-> PyBytes(r.val)])

\* RegionFile.__init__ of world_tools.py and of prefab-score.py
RegionFile_init(f) ==
    IF Min(REGION_HEADER_BYTES, f.len) < REGION_HEADER_BYTES THEN Err("short region header")
    ELSE [locations |-> Slice(f, 0, SECTOR_BYTES)]

\* RegionFile.read_chunk_nbt of world_tools.py and of prefab-score.py
read_chunk_nbt(rf, f, cx, cz) ==
    With(((cx - ((cx \div 32) * 32)) + ((cz - ((cz \div 32) * 32)) * 32)) * 4, LAMBDA at :
    With((rf.locations[at + 1] * 65536) + (rf.locations[at + 2] * 256) + rf.locations[at + 3],
         LAMBDA offset :
         IF offset = 0 THEN [val |-> None]
         ELSE With(Slice(f, offset * SECTOR_BYTES, (offset * SECTOR_BYTES) + 4), LAMBDA head :
              IF Len(head) < 4 THEN Err("struct.error")
              ELSE With(Slice(f, (offset * SECTOR_BYTES) + 4, (offset * SECTOR_BYTES) + 5),
                        LAMBDA ctype :
                   IF ctype = <<>> THEN Err("IndexError")
                   ELSE With(IF dec_u32(head) - 1 < 0
                             THEN Slice(f, (offset * SECTOR_BYTES) + 5, f.len)
                             ELSE Slice(f, (offset * SECTOR_BYTES) + 5,
                                        (offset * SECTOR_BYTES) + 4 + dec_u32(head)),
                             LAMBDA data :
                        IF ctype[1] = 1 THEN Returned(GzipDecompress(data))
                        ELSE IF ctype[1] = 2 THEN Returned(ZlibDecompress(data))
                        ELSE Err("unknown chunk compression type"))))))

\* RegionFile(path).read_chunk_nbt(cx, cz), as get_chunk reaches it
region_file_read(f, cx, cz) ==
    Then(RegionFile_init(f), LAMBDA rf : read_chunk_nbt(rf, f, cx, cz))

\* _read_chunk_raw of waystones-backfill-villages.py
read_chunk_raw(f, local_x, local_z) ==
    IF f.len < 8192 THEN [val |-> None]
    ELSE With(dec_u32(Slice(f, (local_x + (local_z * 32)) * 4,
                               ((local_x + (local_z * 32)) * 4) + 4)), LAMBDA loc :
         With((loc \div 256) % 16777216, LAMBDA off_sectors :
              IF off_sectors = 0 \/ loc % 256 = 0 THEN [val |-> None]
              ELSE IF (off_sectors * 4096) + 5 > f.len THEN [val |-> None]
              ELSE With(Slice(f, (off_sectors * 4096) + 5,
                              (off_sectors * 4096) + 4
                                  + dec_u32(Slice(f, off_sectors * 4096, (off_sectors * 4096) + 4))),
                        LAMBDA payload :
                   With(ByteAt(f, (off_sectors * 4096) + 4), LAMBDA compression :
                        IF compression = 1 THEN Returned(GzipDecompress(payload))
                        ELSE IF compression = 2 THEN Returned(ZlibDecompress(payload))
                        ELSE IF compression = 3 THEN [val |-> PyBytes(payload)]
                        ELSE [val |-> None]))))

\* _read_chunk_raw of detect-pokemart-near-spawn.py
pokemart_read_chunk_raw(f, local_x, local_z) ==
    IF f.len < 8192 THEN [val |-> None]
    ELSE With(dec_u32(Slice(f, (local_x + (local_z * 32)) * 4,
                               ((local_x + (local_z * 32)) * 4) + 4)), LAMBDA loc :
         With((loc \div 256) % 16777216, LAMBDA off_sectors :
              IF off_sectors = 0 \/ loc % 256 = 0 THEN [val |-> None]
              ELSE IF (off_sectors * 4096) + 5 > f.len THEN [val |-> None]
              ELSE With(Slice(f, (off_sectors * 4096) + 5,
                              (off_sectors * 4096) + 4
                                  + dec_u32(Slice(f, off_sectors * 4096, (off_sectors * 4096) + 4))),
                        LAMBDA payload :
                   With(ByteAt(f, (off_sectors * 4096) + 4), LAMBDA compression :
                        IF compression = 1 THEN Returned(GzipDecompress(payload))
                        ELSE IF compression = 2 THEN Returned(ZlibDecompress(payload))
                        ELSE IF compression = 3 THEN [val |-> PyBytes(payload)]
                        ELSE [val |-> None]))))

\* _read_tag_payload of world-height-at.py; a successful read is [val, o]
RECURSIVE wh_read_tag_payload(_, _, _), wh_read_items(_, _, _, _, _),
          wh_read_compound(_, _, _), wh_read_ints(_, _, _, _, _)

\* [_read_tag_payload(inner, buf) for _ in range(ln)]
wh_read_items(b, o, inner, n, acc) ==
    IF n = 0 THEN [val |-> PyList(acc), o |-> o]
    ELSE Then(wh_read_tag_payload(inner, b, o), LAMBDA r :
              wh_read_items(b, r.o, inner, n - 1, Append(acc, r.val)))

\* the while-loop of the TAG_COMPOUND branch
wh_read_compound(b, o, out) ==
    Then(Buf_read(b, o, 1), LAMBDA t :
         IF t.val[1] = TAG_END THEN [val |-> PyDict(out), o |-> t.o]
         ELSE Then(read_string(b, t.o, {}), LAMBDA name :
              Then(wh_read_tag_payload(t.val[1], b, name.o), LAMBDA r :
                   wh_read_compound(b, r.o, DictPut(out, PyVal(name.val), r.val)))))

\* [struct.unpack(">i" or ">q", buf.read_bytes(width))[0] for _ in range(ln)]
wh_read_ints(b, o, width, n, acc) ==
    IF n = 0 THEN [val |-> PyList(acc), o |-> o]
    ELSE Then(Buf_read(b, o, width), LAMBDA r :
              wh_read_ints(b, r.o, width, n - 1,
                           Append(acc, IF width = 4 THEN PyInt(dec_i32(r.val)) ELSE dec_i64(r.val))))

wh_read_tag_payload(tag, b, o) ==
    CASE tag = TAG_BYTE ->
            Then(Buf_read(b, o, 1), LAMBDA r : [val |-> PyInt(dec_i8(r.val)), o |-> r.o])
      [] tag = TAG_SHORT ->
            Then(Buf_read(b, o, 2), LAMBDA r : [val |-> PyInt(dec_i16(r.val)), o |-> r.o])
      [] tag = TAG_INT ->
            Then(Buf_read(b, o, 4), LAMBDA r : [val |-> PyInt(dec_i32(r.val)), o |-> r.o])
      [] tag = TAG_LONG ->
            Then(Buf_read(b, o, 8), LAMBDA r : [val |-> dec_i64(r.val), o |-> r.o])
      [] tag = TAG_FLOAT -> Then(Buf_read(b, o, 4), LAMBDA r : [val |-> None, o |-> r.o])
      [] tag = TAG_DOUBLE -> Then(Buf_read(b, o, 8), LAMBDA r : [val |-> None, o |-> r.o])
      [] tag = TAG_BYTE_ARRAY ->
            Then(Buf_read(b, o, 4), LAMBDA h :
                 IF dec_i32(h.val) < 0 THEN Err("negative byte array length")
                 ELSE Then(Buf_read(b, h.o, dec_i32(h.val)), LAMBDA r :
                           [val |-> PyBytes(r.val), o |-> r.o]))
      [] tag = TAG_STRING ->
            Then(read_string(b, o, {}), LAMBDA r : [val |-> r.val, o |-> r.o])
      [] tag = TAG_LIST ->
            Then(Buf_read(b, o, 1), LAMBDA inner :
            Then(Buf_read(b, inner.o, 4), LAMBDA h :
                 IF dec_i32(h.val) < 0 THEN Err("negative list length")
                 ELSE wh_read_items(b, h.o, inner.val[1], dec_i32(h.val), <<>>)))
      [] tag = TAG_COMPOUND -> wh_read_compound(b, o, <<>>)
      [] tag \in {TAG_INT_ARRAY, TAG_LONG_ARRAY} ->
            Then(Buf_read(b, o, 4), LAMBDA h :
                 IF dec_i32(h.val) < 0 THEN Err("negative array length")
                 ELSE wh_read_ints(b, h.o, IF tag = TAG_INT_ARRAY THEN 4 ELSE 8,
                                   dec_i32(h.val), <<>>))
      [] OTHER -> Err("unknown tag")

\* _load_nbt_bytes of world-height-at.py: gzip first, the bytes as they are on OSError
load_nbt_bytes(raw) ==
    With(GzipDecompress(raw), LAMBDA z :
         IF IsErr(z) /\ z.err # "OSError" THEN z
         ELSE With(IF IsErr(z) THEN raw ELSE z.val, LAMBDA bytes :
              Then(Buf_read(bytes, 0, 1), LAMBDA t :
                   IF t.val[1] # TAG_COMPOUND THEN Err("unexpected root tag")
                   ELSE Then(read_string(bytes, t.o, {}), LAMBDA name :
                        Then(wh_read_compound(bytes, name.o, <<>>), LAMBDA root :
                             [val |-> root.val])))))

\* _read_chunk_nbt of world-height-at.py, on the region file of the chunk
wh_read_chunk_nbt(f, cx, cz) ==
    IF f.len < 8192 THEN Err("Invalid region file (too small)")
    ELSE With(dec_u32(Slice(f, ((cx % 32) + ((cz % 32) * 32)) * 4,
                               (((cx % 32) + ((cz % 32) * 32)) * 4) + 4)), LAMBDA loc :
         With((loc \div 256) % 16777216, LAMBDA off_sectors :
              IF off_sectors = 0 \/ loc % 256 = 0 THEN Err("Chunk not present in region")
              ELSE IF (off_sectors * 4096) + 5 > f.len THEN Err("Chunk offset out of bounds")
              ELSE With(Slice(f, (off_sectors * 4096) + 5,
                              (off_sectors * 4096) + 4
                                  + dec_u32(Slice(f, off_sectors * 4096, (off_sectors * 4096) + 4))),
                        LAMBDA payload :
                   With(ByteAt(f, (off_sectors * 4096) + 4), LAMBDA compression :
                        IF compression = 1
                        THEN Then(GzipDecompress(payload), LAMBDA r : load_nbt_bytes(r.val))
                        ELSE IF compression = 2
                        THEN Then(ZlibDecompress(payload), LAMBDA r : load_nbt_bytes(r.val))
                        ELSE IF compression = 3 THEN load_nbt_bytes(payload)
                        ELSE Err("Unknown compression type")))))

\* ------------------------------------------- region reader: inputs, actions
\* the bytes seq laid down from offset at
Placed(seq, at) == [i \in at..(at + Len(seq) - 1) |-> seq[(i - at) + 1]]
\* the location entry of slot idx: 24-bit sector offset, 8-bit sector count
Location(idx, sector, count) ==
    Placed(<<sector \div 65536, (sector \div 256) % 256, sector % 256, count>>, idx * 4)
\* what a chunk of the given scheme stores for a payload
Stored(scheme, payload) ==
    IF scheme = 1 THEN GzipCompress(payload)
    ELSE IF scheme = 2 THEN ZlibCompress(payload)
    ELSE payload
\* the chunk record: 4-byte length, 1-byte scheme, the stored bytes
ChunkRecord(scheme, stored) == <<0, 0, 0, Len(stored) + 1, scheme>> \o stored

\* two chunk tag trees as uncompressed bytes: {} and {"x": 7}, each under an
\* unnamed root compound
EmptyChunk == <<10, 0, 0, 0>>
SmallChunk == <<10, 0, 0, 3, 0, 1, 120, 0, 0, 0, 7, 0>>
Payloads == {EmptyChunk, SmallChunk}
ChunkTree(payload) ==
    IF payload = EmptyChunk THEN PyDict(<<>>) ELSE PyDict(<< <<(<<120>>), PyInt(7)>> >>)

Schemes == {1, 2, 3, 4}

\* a four-sector file: slot (0,0) absent, slot (1,1) in sector 2 under the
\* given scheme, slot (31,31) in sector 3 under gzip
MixedRegion(scheme, payload) ==
    [len |-> 4 * SECTOR_BYTES,
     data |-> Location(33, 2, 1) @@ Location(1023, 3, 1)
              @@ Placed(ChunkRecord(scheme, Stored(scheme, payload)), 2 * SECTOR_BYTES)
              @@ Placed(ChunkRecord(1, Stored(1, EmptyChunk)), 3 * SECTOR_BYTES)]
\* a header and nothing else
BareRegion == [len |-> REGION_HEADER_BYTES, data |-> <<>>]
\* files cut short inside the header, with or without location entries
ShortRegions ==
    {[len |-> 0, data |-> <<>>],
     [len |-> SECTOR_BYTES, data |-> Location(33, 2, 1)],
     [len |-> REGION_HEADER_BYTES - 1, data |-> Location(0, 2, 1) @@ Location(33, 2, 1)]}
\* a location entry that points past the end of the file
DanglingRegion == [len |-> REGION_HEADER_BYTES, data |-> Location(33, 5, 1)]

Regions ==
    {MixedRegion(scheme, payload) : scheme \in Schemes, payload \in Payloads}
    \cup {BareRegion, DanglingRegion} \cup ShortRegions

\* chunk coordinates asked for; the file on disk is the region of the chunk
Slots == {<<0, 0>>, <<1, 1>>, <<31, 31>>, <<33, 1>>, <<-31, 33>>}

Readers == {"world_tools", "prefab_score", "waystones", "world_height", "detect_pokemart"}

InitRegion ==
    /\ pc = "region"
    /\ region \in Regions
    /\ slot \in Slots
    /\ chunk = [r \in Readers |-> Pending]
    /\ CodecIdle /\ XfIdle /\ CompIdle /\ GramIdle /\ SectionIdle /\ JobsIdle /\ AdminIdle

\* world_tools.py: RegionFile(path).read_chunk_nbt(cx, cz)
ReadWorldTools ==
    /\ pc = "region"
    /\ chunk["world_tools"] = Pending
    /\ chunk' = [chunk EXCEPT !["world_tools"] = region_file_read(region, slot[1], slot[2])]
    /\ UNCHANGED <<pc, region, slot, codecVars, xfVars, compVars, gramVars, sectionVars, jobVars, adminVars>>

\* prefab-score.py: RegionFile(path).read_chunk_nbt(cx, cz)
ReadPrefabScore ==
    /\ pc = "region"
    /\ chunk["prefab_score"] = Pending
    /\ chunk' = [chunk EXCEPT !["prefab_score"] = region_file_read(region, slot[1], slot[2])]
    /\ UNCHANGED <<pc, region, slot, codecVars, xfVars, compVars, gramVars, sectionVars, jobVars, adminVars>>

\* waystones-backfill-villages.py: _read_chunk_raw(region_path, lx, lz)
ReadWaystones ==
    /\ pc = "region"
    /\ chunk["waystones"] = Pending
    /\ chunk' = [chunk EXCEPT !["waystones"] = read_chunk_raw(region, slot[1] % 32, slot[2] % 32)]
    /\ UNCHANGED <<pc, region, slot, codecVars, xfVars, compVars, gramVars, sectionVars, jobVars, adminVars>>

\* world-height-at.py: _read_chunk_nbt(world, cx, cz)
ReadWorldHeight ==
    /\ pc = "region"
    /\ chunk["world_height"] = Pending
    /\ chunk' = [chunk EXCEPT !["world_height"] = wh_read_chunk_nbt(region, slot[1], slot[2])]
    /\ UNCHANGED <<pc, region, slot, codecVars, xfVars, compVars, gramVars, sectionVars, jobVars, adminVars>>

\* detect-pokemart-near-spawn.py: _read_chunk_raw(rp, lx, lz) with lx = cx & 31
ReadDetectPokemart ==
    /\ pc = "region"
    /\ chunk["detect_pokemart"] = Pending
    /\ chunk' = [chunk EXCEPT !["detect_pokemart"] =
                     pokemart_read_chunk_raw(region, slot[1] % 32, slot[2] % 32)]
    /\ UNCHANGED <<pc, region, slot, codecVars, xfVars, compVars, gramVars, sectionVars, jobVars, adminVars>>

NextRegion ==
    \/ ReadWorldTools \/ ReadPrefabScore \/ ReadWaystones \/ ReadWorldHeight
    \/ ReadDetectPokemart

SpecRegion == InitRegion /\ [][NextRegion]_vars

\* ------------------------------------------------- region reader: the claims
\* the slot asked for and the sector offset and sector count of its location
\* entry, read off the file
LocalIndex == (slot[1] % 32) + ((slot[2] % 32) * 32)
SlotOffset ==
    (ByteAt(region, LocalIndex * 4) * 65536) + (ByteAt(region, (LocalIndex * 4) + 1) * 256)
        + ByteAt(region, (LocalIndex * 4) + 2)
SlotCount == ByteAt(region, (LocalIndex * 4) + 3)

\* the slot asked for is present and its chunk record holds the payload under
\* the scheme
SlotHolds(scheme, payload) ==
    LET record == ChunkRecord(scheme, Stored(scheme, payload)) IN
    /\ region.len >= 2 * 4096
    /\ SlotOffset # 0 /\ SlotCount # 0
    /\ (SlotOffset * 4096) + Len(record) <= region.len
    /\ \A i \in 1..Len(record) : ByteAt(region, (SlotOffset * 4096) + (i - 1)) = record[i]

\* C19: region lookup absence.  Reading a chunk returns None, not an error,
\* whenever the location entry of the slot has sector offset 0 and whenever the
\* file is shorter than the two 4096-byte header sectors, whatever the other
\* slots of the file hold; for RegionFile of world_tools.py and for
\* _read_chunk_raw of waystones-backfill-villages.py.
AbsentIsNone ==
    (pc = "region" /\ (region.len < 2 * 4096 \/ SlotOffset = 0)) =>
        \A r \in {"world_tools", "waystones"} :
            chunk[r] # Pending => chunk[r] = [val |-> None]

\* C20: for a present slot every copy of the reader returns the payload
\* decoded by its scheme byte: gzip-decompressed for 1, zlib-decompressed for
\* 2, the stored bytes unchanged for 3 (world-height-at.py returns the tag
\* tree of those bytes).
DecodesPerScheme ==
    pc = "region" =>
        \A scheme \in 1..3, payload \in Payloads :
            SlotHolds(scheme, payload) =>
                /\ \A r \in {"world_tools", "prefab_score", "waystones"} :
                      chunk[r] # Pending => chunk[r] = [val |-> PyBytes(payload)]
                /\ chunk["world_height"] # Pending =>
                      chunk["world_height"] = [val |-> ChunkTree(payload)]

\* the slot asked for is present and its chunk record carries the scheme byte
SlotScheme(scheme) ==
    /\ region.len >= 2 * 4096
    /\ SlotOffset # 0 /\ SlotCount # 0
    /\ (SlotOffset * 4096) + 5 <= region.len
    /\ ByteAt(region, (SlotOffset * 4096) + 4) = scheme

\* C21: an unknown compression-scheme byte (anything other than 1, 2, 3) on a
\* present chunk slot is a hard failure of the read in every copy of the
\* region reader: the read ends in an error and never returns None or a
\* payload.
UnknownSchemeFails ==
    (pc = "region" /\ \E scheme \in Schemes \ {1, 2, 3} : SlotScheme(scheme)) =>
        \A r \in Readers : chunk[r] # Pending => IsErr(chunk[r])

\* ------------------------------------------------------- palette storage
\* The Section class of world_tools.py; prefab-score.py carries the same
\* code.  A Python int that is not negative is the set of the positions of its
\* 1 bits, bit 0 the lowest, so a word of the data array keeps all of its 64
\* bits.  The chunk parser masks every word to 64 bits and replaces a missing
\* or empty palette by ["minecraft:air"].

WORD_BITS == 64
MIN_BITS == 4

\* the 1 bits of a natural number, and the number of a set of 1 bits
RECURSIVE BitsOf(_), ToInt(_)
BitsOf(v) ==
    IF v = 0 THEN {}
    ELSE (IF v % 2 = 1 THEN {0} ELSE {}) \cup {b + 1 : b \in BitsOf(v \div 2)}
ToInt(word) ==
    IF word = {} THEN 0
    ELSE (IF 0 \in word THEN 1 ELSE 0) + (2 * ToInt({b - 1 : b \in word \ {0}}))

\* x << k, x >> k, x & y, x | y and (1 << k) - 1 on such ints
shl(word, k) == {b + k : b \in word}
shr(word, k) == {b - k : b \in {c \in word : c >= k}}
bit_and(x, y) == x \cap y
bit_or(x, y) == x \cup y
low_mask(k) == 0..(k - 1)

\* int.bit_length()
RECURSIVE bit_length(_)
bit_length(x) == IF x = 0 THEN 0 ELSE 1 + bit_length(x \div 2)

Max(a, b) == IF a >= b THEN a ELSE b

\* Section.bits without its floor of 4 and without the one-entry case
bits_exact(s) == bit_length(Len(s.palette) - 1)

\* Section.bits
bits(s) ==
    IF Len(s.palette) <= 1 THEN 0
    ELSE Max(MIN_BITS, bit_length(Len(s.palette) - 1))

\* the layout of older engines: entry idx starts at bit idx * bits of the
\* array taken as one bit string, and may span two words
palette_index_spanning(s, idx) ==
    IF s.data = None THEN 0
    ELSE IF bits(s) <= 0 THEN 0
    ELSE LET words == s.data[2]
             all == UNION {shl(words[k], (k - 1) * WORD_BITS) : k \in 1..Len(words)}
         IN  ToInt(bit_and(shr(all, idx * bits(s)), low_mask(bits(s))))

\* Section.palette_index
palette_index(s, idx) ==
    IF s.data = None THEN 0
    ELSE IF bits(s) <= 0 THEN 0
    ELSE LET values_per_long == WORD_BITS \div bits(s)
             li == idx \div values_per_long
             off == (idx % values_per_long) * bits(s)
         IN  IF values_per_long <= 0 THEN 0
             ELSE IF li < 0 \/ li >= Len(s.data[2]) THEN 0
             ELSE ToInt(bit_and(shr(s.data[2][li + 1], off), low_mask(bits(s))))

\* Section.block_name
block_name(s, lx, ly, lz) ==
    LET idx == ToInt(bit_or(bit_or(shl(BitsOf(ly), 8), shl(BitsOf(lz), 4)), BitsOf(lx)))
        index == palette_index(s, idx)
    IN  IF index < 0 \/ index >= Len(s.palette) THEN "minecraft:air"
        ELSE s.palette[index + 1]

\* pack of test_prefab_score.py, for any width: one word from its values
pack(vals, width) ==
    UNION {shl(bit_and(BitsOf(vals[i + 1]), low_mask(width)), i * width) :
               i \in 0..(Len(vals) - 1)}

\* the data array of N values: floor(64 / width) values to a word
PackAll(vals, width) ==
    LET per == WORD_BITS \div width
        count == (Len(vals) + per - 1) \div per
    IN  [k \in 1..count |->
            pack(SubSeq(vals, ((k - 1) * per) + 1, Min(k * per, Len(vals))), width)]

\* ------------------------------------------------ palette storage: inputs
MaxWords == 2

\* ceil(log2(n)) and the bit width of a palette of n entries
CeilLog2(n) == CHOOSE k \in 0..12 : 2^k >= n /\ (k = 0 \/ 2^(k - 1) < n)
WidthOf(n) == IF n <= 1 THEN 0 ELSE Max(4, CeilLog2(n))

PaletteSizes == {1, 2, 3, 16, 17, 33, 41, 65}
FirstLabels == {"minecraft:air", "minecraft:stone"}
Palette(first, n) == [i \in 1..n |-> IF i = 1 THEN first ELSE "b" \o ToString(i - 1)]

\* N values below 2^width: a * i + b modulo 2^width
Values(width, N, a, b) == [i \in 1..N |-> ((a * (i - 1)) + b) % (2^width)]
CellCounts(width) ==
    {1, WORD_BITS \div width, (WORD_BITS \div width) + 1, MaxWords * (WORD_BITS \div width)}
ValueSeqs(width) ==
    {Values(width, N, ab[1], ab[2]) :
        N \in CellCounts(width),
        ab \in {<<0, 0>>, <<0, (2^width) - 1>>, <<1, 0>>, <<1, (2^width) - 1>>, <<7, 3>>}}

Front(s) == SubSeq(s, 1, Len(s) - 1)

\* a section and the values its data array was packed from: every word
\* there, the last word missing, no data array at all; a one-entry palette has
\* no data array or a stray word
SectionInputs ==
    {[section |-> [palette |-> Palette(first, 1), data |-> data], packed |-> <<>>] :
        first \in FirstLabels,
        data \in {None, PyList(<<{}>>), PyList(<<0..(WORD_BITS - 1)>>)}}
    \cup {[section |-> [palette |-> Palette(first, n), data |-> None], packed |-> <<>>] :
        first \in FirstLabels, n \in PaletteSizes \ {1}}
    \cup UNION {
        {[section |-> [palette |-> Palette(first, n),
                       data |-> PyList(IF whole THEN PackAll(vals, WidthOf(n))
                                       ELSE Front(PackAll(vals, WidthOf(n))))],
          packed |-> vals] :
            first \in FirstLabels, vals \in ValueSeqs(WidthOf(n)), whole \in BOOLEAN} :
        n \in PaletteSizes \ {1}}

CellIndexes == 0..(MaxWords * (WORD_BITS \div MIN_BITS))
LocalCoords == {<<lx, ly, lz>> : lx \in {0, 1, 9, 10, 15}, ly \in {0, 1}, lz \in {0, 1}}

InitSection ==
    /\ pc = "section"
    /\ \E input \in SectionInputs : section = input.section /\ packed = input.packed
    /\ got = Pending
    /\ CodecIdle /\ XfIdle /\ CompIdle /\ GramIdle /\ RegionIdle /\ JobsIdle /\ AdminIdle

\* sec.bits
GetBits ==
    /\ pc = "section"
    /\ got = Pending
    /\ got' = [op |-> "bits", at |-> <<>>, val |-> bits(section)]
    /\ UNCHANGED <<pc, section, packed, codecVars, xfVars, compVars, gramVars, regionVars, jobVars, adminVars>>

\* sec.palette_index(idx)
PaletteIndex ==
    /\ pc = "section"
    /\ got = Pending
    /\ \E idx \in CellIndexes :
           got' = [op |-> "palette_index", at |-> <<idx>>, val |-> palette_index(section, idx)]
    /\ UNCHANGED <<pc, section, packed, codecVars, xfVars, compVars, gramVars, regionVars, jobVars, adminVars>>

\* sec.block_name(lx, ly, lz)
BlockName ==
    /\ pc = "section"
    /\ got = Pending
    /\ \E c \in LocalCoords :
           got' = [op |-> "block_name", at |-> c,
                   val |-> block_name(section, c[1], c[2], c[3])]
    /\ UNCHANGED <<pc, section, packed, codecVars, xfVars, compVars, gramVars, regionVars, jobVars, adminVars>>

NextSection == GetBits \/ PaletteIndex \/ BlockName

SpecSection == InitSection /\ [][NextSection]_vars

\* ------------------------------------------------ palette storage: claims
\* the data array of the section is the packing of `packed` at the width of
\* its palette
IsPacked ==
    /\ Len(section.palette) >= 2
    /\ section.data = PyList(PackAll(packed, WidthOf(Len(section.palette))))

\* C22: BitStorage round trip.  For a palette of n >= 2 entries, width
\* w = max(4, ceil(log2(n))) and N values below 2^w packed floor(64/w) to a
\* word from the low bits, palette_index(i) is the i-th value for every i < N.
BitStorageRoundTrip ==
    (pc = "section" /\ got # Pending /\ got.op = "palette_index" /\ IsPacked
        /\ got.at[1] < Len(packed)) =>
        got.val = packed[got.at[1] + 1]

\* width 6, ten values to a word: the first value of the second word
BitStorageWitness ==
    /\ pc = "section" /\ got # Pending /\ got.op = "palette_index" /\ IsPacked
    /\ Len(section.palette) = 41
    /\ got.at = <<10>> /\ Len(packed) = 20 /\ packed[11] = 10 /\ got.val = 10

\* the index block_name decodes for the cell it was asked
DecodedIndex ==
    palette_index(section, (got.at[2] * 256) + (got.at[3] * 16) + got.at[1])

\* C23: palette fallback.  When the index decoded for a cell is out of range
\* for the palette (index >= len(palette)), block_name returns the label at
\* palette index 0 of the section.
PaletteFallback ==
    (pc = "section" /\ got # Pending /\ got.op = "block_name"
        /\ DecodedIndex >= Len(section.palette)) =>
        got.val = section.palette[1]

\* C24: Section.bits is 0 for a palette of at most one entry and
\* max(4, ceil(log2(len(palette)))) otherwise; at width 0 palette_index is 0
\* for every cell and every cell resolves to palette[0].
SectionBitWidth ==
    (pc = "section" /\ got # Pending) =>
        /\ got.op = "bits" => got.val = WidthOf(Len(section.palette))
        /\ (got.op = "palette_index" /\ WidthOf(Len(section.palette)) = 0) => got.val = 0
        /\ (got.op = "block_name" /\ WidthOf(Len(section.palette)) = 0) =>
               got.val = section.palette[1]

\* a one-entry palette over a stray word of 1 bits
SectionBitWidthWitness ==
    /\ pc = "section" /\ got # Pending /\ got.op = "block_name"
    /\ section.palette = <<"minecraft:stone">>
    /\ section.data = PyList(<<0..(WORD_BITS - 1)>>)
    /\ got.val = "minecraft:stone"

\* ---------------------------------------------------------------- job queue
\* admin-web/app/jobs.py.  A str of job output is [pad, text]: pad filler
\* characters followed by text.  uuid4 ids are the integers in the order they
\* were drawn.  The handlers of main.py are coroutines of one event loop, so
\* one enqueue call runs at a time, interleaved with the worker thread.

TAIL_CHARS == 8192

Str(s) == [pad |-> 0, text |-> s]
\* s[-8192:]
str_tail(s) == [pad |-> Min(s.pad, TAIL_CHARS - Len(s.text)), text |-> s.text]

UTCNOW == PyStr("utcnow")

\* JobRecord(id=..., action=...)
JobRecord(id, action) ==
    [id |-> id, action |-> action, status |-> "queued", started_at |-> None,
     finished_at |-> None, exit_code |-> None, stdout_tail |-> Str(""), stderr_tail |-> Str("")]

\* the position of the record of a job in _records, 0 when it has none
RecordAt(recs, job_id) ==
    IF \E i \in 1..Len(recs) : recs[i].id = job_id
    THEN CHOOSE i \in 1..Len(recs) : recs[i].id = job_id
    ELSE 0

\* the `while len(self._records) > self._history_limit: popitem(last=False)`
\* of enqueue
RECURSIVE evict(_, _)
evict(recs, limit) ==
    IF Len(recs) > limit THEN evict(Tail(recs), limit) ELSE recs

\* JobQueue.list
list(recs) == [i \in 1..Len(recs) |-> recs[(Len(recs) + 1) - i]]

\* JobQueue.get: an Optional[JobRecord] is the sequence of no or one record
get(recs, job_id) ==
    IF RecordAt(recs, job_id) = 0 THEN <<>> ELSE <<recs[RecordAt(recs, job_id)]>>

\* _mark_running on a job that has a record
mark_running(recs, job_id) ==
    [recs EXCEPT ![RecordAt(recs, job_id)] =
        [@ EXCEPT !.status = "running", !.started_at = UTCNOW]]

\* _mark_finished on a job that has a record
mark_finished(recs, job_id, succeeded, exit_code_, stdout, stderr) ==
    [recs EXCEPT ![RecordAt(recs, job_id)] =
        [@ EXCEPT !.status = IF succeeded THEN "succeeded" ELSE "failed",
                  !.exit_code = PyInt(exit_code_),
                  !.stdout_tail = str_tail(stdout),
                  !.stderr_tail = str_tail(stderr),
                  !.finished_at = UTCNOW]]

\* ------------------------------------------------------ job queue: inputs
MaxJobs == 3
MaxHistory == 3

LongOutput == [pad |-> TAIL_CHARS + 1, text |-> "done"]
\* what a job callable does when called: return (stdout, stderr) or raise
Callables ==
    {[kind |-> "returns", stdout |-> Str("backup ok"), stderr |-> Str("")],
     [kind |-> "returns", stdout |-> LongOutput, stderr |-> Str("warn")],
     [kind |-> "raises", text |-> Str("boom")]}
ActionOf(fn) ==
    IF fn.kind = "raises" THEN "server.restart"
    ELSE IF fn.stdout = LongOutput THEN "player.add" ELSE "server.backup"

\* JobQueue(history_limit=settings.job_history) followed by start()
InitJobs ==
    /\ pc = "jobs"
    /\ history_limit \in 1..MaxHistory
    /\ records = <<>>
    /\ jobq = <<>>
    /\ worker = [at |-> "get"]
    /\ caller = [at |-> "idle"]
    /\ next_id = 1
    /\ reply = Pending
    /\ CodecIdle /\ XfIdle /\ CompIdle /\ GramIdle /\ RegionIdle /\ SectionIdle /\ AdminIdle

\* enqueue, lines 68-73: the record enters _records under the lock
EnqueueRecord ==
    /\ pc = "jobs"
    /\ caller.at = "idle"
    /\ next_id <= MaxJobs
    /\ \E fn \in Callables :
         /\ records' = evict(Append(records, JobRecord(next_id, ActionOf(fn))), history_limit)
         /\ caller' = [at |-> "put", item |-> [id |-> next_id, fn |-> fn]]
    /\ next_id' = next_id + 1
    /\ UNCHANGED <<pc, history_limit, jobq, worker, reply,
                   codecVars, xfVars, compVars, gramVars, regionVars, sectionVars, adminVars>>

\* enqueue, lines 74-75: the job enters _queue
EnqueuePut ==
    /\ pc = "jobs"
    /\ caller.at = "put"
    /\ jobq' = Append(jobq, caller.item)
    /\ caller' = [at |-> "idle"]
    /\ UNCHANGED <<pc, history_limit, records, worker, next_id, reply,
                   codecVars, xfVars, compVars, gramVars, regionVars, sectionVars, adminVars>>

\* a worker that takes the newest job of the queue
WorkerGetNewest ==
    /\ pc = "jobs"
    /\ worker.at = "get"
    /\ jobq # <<>>
    /\ worker' = [at |-> "mark_running", item |-> jobq[Len(jobq)]]
    /\ jobq' = SubSeq(jobq, 1, Len(jobq) - 1)
    /\ UNCHANGED <<pc, history_limit, records, caller, next_id, reply,
                   codecVars, xfVars, compVars, gramVars, regionVars, sectionVars, adminVars>>

\* _worker_loop, line 88: item = self._queue.get()
WorkerGet ==
    /\ pc = "jobs"
    /\ worker.at = "get"
    /\ jobq # <<>>
    /\ worker' = [at |-> "mark_running", item |-> Head(jobq)]
    /\ jobq' = Tail(jobq)
    /\ UNCHANGED <<pc, history_limit, records, caller, next_id, reply,
                   codecVars, xfVars, compVars, gramVars, regionVars, sectionVars, adminVars>>

\* _worker_loop, line 93: _mark_running; the KeyError of a job without a
\* record is raised outside the try and ends the thread
WorkerMarkRunning ==
    /\ pc = "jobs"
    /\ worker.at = "mark_running"
    /\ IF RecordAt(records, worker.item.id) = 0
       THEN worker' = [at |-> "dead"] /\ UNCHANGED records
       ELSE /\ records' = mark_running(records, worker.item.id)
            /\ worker' = [at |-> "run", item |-> worker.item]
    /\ UNCHANGED <<pc, history_limit, jobq, caller, next_id, reply,
                   codecVars, xfVars, compVars, gramVars, regionVars, sectionVars, adminVars>>

\* _worker_loop, lines 94-96: the callable runs and returns or raises
WorkerRun ==
    /\ pc = "jobs"
    /\ worker.at = "run"
    /\ worker' = [at |-> "mark_finished", item |-> worker.item]
    /\ UNCHANGED <<pc, history_limit, records, jobq, caller, next_id, reply,
                   codecVars, xfVars, compVars, gramVars, regionVars, sectionVars, adminVars>>

\* _worker_loop, lines 97-101: _mark_finished; the KeyError of a job without
\* a record leaves the except or else clause and ends the thread
WorkerMarkFinished ==
    /\ pc = "jobs"
    /\ worker.at = "mark_finished"
    /\ IF RecordAt(records, worker.item.id) = 0
       THEN worker' = [at |-> "dead"] /\ UNCHANGED records
       ELSE /\ records' =
                  IF worker.item.fn.kind = "raises"
                  THEN mark_finished(records, worker.item.id, FALSE, 1, Str(""),
                                     worker.item.fn.text)
                  ELSE mark_finished(records, worker.item.id, TRUE, 0,
                                     worker.item.fn.stdout, worker.item.fn.stderr)
            /\ worker' = [at |-> "get"]
    /\ UNCHANGED <<pc, history_limit, jobq, caller, next_id, reply,
                   codecVars, xfVars, compVars, gramVars, regionVars, sectionVars, adminVars>>

\* GET /api/jobs/{job_id}: api_job_details
ApiJobDetails ==
    /\ pc = "jobs"
    /\ \E job_id \in 1..MaxJobs :
         reply' = IF get(records, job_id) = <<>>
                  THEN [code |-> 404, of |-> job_id, body |-> <<>>]
                  ELSE [code |-> 200, of |-> job_id, body |-> get(records, job_id)]
    /\ UNCHANGED <<pc, history_limit, records, jobq, worker, caller, next_id,
                   codecVars, xfVars, compVars, gramVars, regionVars, sectionVars, adminVars>>

\* GET /api/jobs: api_jobs
ApiJobs ==
    /\ pc = "jobs"
    /\ reply' = [code |-> 200, of |-> 0, body |-> list(records)]
    /\ UNCHANGED <<pc, history_limit, records, jobq, worker, caller, next_id,
                   codecVars, xfVars, compVars, gramVars, regionVars, sectionVars, adminVars>>

WorkerStep == WorkerGet \/ WorkerMarkRunning \/ WorkerRun \/ WorkerMarkFinished

NextJobs == EnqueueRecord \/ EnqueuePut \/ WorkerStep \/ ApiJobDetails \/ ApiJobs

SpecJobs == InitJobs /\ [][NextJobs]_vars

\* the worker thread is scheduled, queue.get returns once an item is there,
\* every callable terminates, and an enqueue call runs to its end
SpecJobsFair ==
    /\ SpecJobs
    /\ WF_vars(WorkerGet) /\ WF_vars(WorkerMarkRunning) /\ WF_vars(WorkerRun)
    /\ WF_vars(WorkerMarkFinished) /\ WF_vars(EnqueuePut)

\* ------------------------------------------------------ job queue: claims
Terminal == {"succeeded", "failed"}
InQueue(job_id) == \E i \in 1..Len(jobq) : jobq[i].id = job_id
\* the worker holds the job: taken off the queue and not yet marked finished
Held(job_id) ==
    worker.at \in {"mark_running", "run", "mark_finished"} /\ worker.item.id = job_id
\* what GET /api/jobs/{id} reports is a terminal status
ReportsTerminal(job_id) ==
    /\ get(records, job_id) # <<>>
    /\ get(records, job_id)[1].status \in Terminal

\* C25: job liveness.  Every job enqueued on a started JobQueue eventually
\* reaches a terminal status (succeeded or failed) that GET /api/jobs/{id}
\* reports, provided each callable terminates, for any history_limit >= 1 and
\* any number of jobs enqueued while earlier jobs are queued or running.
EveryJobFinishes ==
    \A job_id \in 1..MaxJobs : (pc = "jobs" /\ InQueue(job_id)) ~> ReportsTerminal(job_id)

\* the job has been handed out by enqueue and is neither waiting nor in hand
Over(job_id) ==
    /\ job_id < next_id
    /\ ~InQueue(job_id) /\ ~Held(job_id)
    /\ ~(caller.at = "put" /\ caller.item.id = job_id)
    /\ RecordAt(records, job_id) # 0 => records[RecordAt(records, job_id)].status \in Terminal
\* the record of the job goes from queued to running in the step
Starts(job_id) ==
    /\ RecordAt(records, job_id) # 0 /\ RecordAt(records', job_id) # 0
    /\ records[RecordAt(records, job_id)].status = "queued"
    /\ records'[RecordAt(records', job_id)].status = "running"

\* C28: job execution order.  The single worker runs the jobs one at a time in
\* the order they were enqueued: at most one record has status running, and a
\* job starts only when every job enqueued earlier is over.
OneAtATime ==
    pc = "jobs" => Cardinality({i \in 1..Len(records) : records[i].status = "running"}) <= 1
InOrder ==
    \A job_id \in 1..MaxJobs :
        Starts(job_id) => \A earlier \in 1..(job_id - 1) : Over(earlier)
JobExecutionOrder == []OneAtATime /\ [][InOrder]_vars

\* the second job runs after the first finished, the third waits
JobExecutionOrderWitness ==
    /\ pc = "jobs" /\ Len(records) = 3
    /\ records[1].status \in Terminal /\ records[2].status = "running"
    /\ records[3].status = "queued" /\ InQueue(3)

\* the fields of a record agree with its status
FieldsAgree(rec) ==
    /\ rec.status \in {"queued", "running"} \cup Terminal
    /\ (rec.exit_code # None) <=> (rec.status \in Terminal)
    /\ (rec.finished_at # None) <=> (rec.status \in Terminal)
    /\ (rec.started_at # None) <=> (rec.status # "queued")
\* the status of a record that stays moves queued -> running -> terminal
Moves(job_id) ==
    (RecordAt(records, job_id) # 0 /\ RecordAt(records', job_id) # 0) =>
        \A before \in {records[RecordAt(records, job_id)]},
           after \in {records'[RecordAt(records', job_id)]} :
            \/ after.status = before.status
            \/ before.status = "queued" /\ after.status = "running"
            \/ before.status = "running" /\ after.status \in Terminal
\* the worker leaves the call of a job: the record shows the outcome and the
\* worker is back at the queue
Finishes ==
    (worker.at = "mark_finished" /\ worker' # worker) =>
        /\ worker'.at = "get"
        /\ RecordAt(records', worker.item.id) # 0
        /\ \A after \in {records'[RecordAt(records', worker.item.id)]} :
              IF worker.item.fn.kind = "returns"
              THEN after.status = "succeeded" /\ after.exit_code = PyInt(0)
              ELSE /\ after.status = "failed" /\ after.exit_code = PyInt(1)
                   /\ after.stderr_tail = str_tail(worker.item.fn.text)

\* C29: job record lifecycle.  A status only moves queued -> running ->
\* succeeded or failed and never changes after a terminal status; a callable
\* that returns gives succeeded with exit_code 0, one that raises gives failed
\* with exit_code 1 and the exception text as stderr_tail, and the worker goes
\* on to the next job; exit_code and finished_at are set exactly when the
\* status is terminal, started_at exactly when it is not queued.
RecordLifecycle ==
    /\ [](pc = "jobs" => \A i \in 1..Len(records) : FieldsAgree(records[i]))
    /\ [][(\A job_id \in 1..MaxJobs : Moves(job_id)) /\ Finishes]_vars

\* the job is still queued or running
Live(job_id) ==
    \/ InQueue(job_id) \/ Held(job_id)
    \/ caller.at = "put" /\ caller.item.id = job_id

\* C30: job history bound.  JobQueue retains at most history_limit records,
\* the retained records are the most recently enqueued ones, list() returns
\* them newest first, and no eviction removes the record of a job that is
\* still queued or running.
HistoryBound ==
    pc = "jobs" =>
        /\ Len(records) <= history_limit
        /\ \A i \in 1..Len(records) : records[i].id = (next_id - Len(records)) + (i - 1)
        /\ (reply # Pending /\ reply.of = 0) =>
               \A i \in 1..(Len(reply.body) - 1) : reply.body[i].id > reply.body[i + 1].id
        /\ \A job_id \in 1..MaxJobs : Live(job_id) => RecordAt(records, job_id) # 0

\* ------------------------------------------------------------- admin API
\* admin-web/app/auth.py and the handlers of main.py behind the session
\* middleware main.py installs.  The middleware keeps the session in a signed
\* cookie: a request carries no cookie or one the server signed before, the
\* session of the request is the content of that cookie, and the session left
\* by the handler is signed into the response.  A session is
\* [authenticated, csrf_token] with csrf_token 0 for a missing key; a token
\* drawn by secrets.token_urlsafe is the count of the tokens drawn so far; an
\* X-CSRF-Token header is 0 when absent.  The worker thread is left
\* unscheduled here, so the jobs enqueued stay queued.

NoSession == [authenticated |-> FALSE, csrf_token |-> 0]

\* auth.is_authenticated
is_authenticated(session) == session.authenticated

\* auth.login: the session it leaves
login(session, token) == [authenticated |-> TRUE, csrf_token |-> token]

\* auth.logout: the session it leaves
logout(session) == NoSession

\* auth.get_csrf_token: the session it leaves
get_csrf_token(session, token) ==
    IF session.csrf_token = 0 THEN [session EXCEPT !.csrf_token = token] ELSE session

\* auth.require_login
require_login(session) ==
    IF ~is_authenticated(session) THEN Err(401) ELSE [val |-> None]

\* auth.verify_csrf
verify_csrf(session, provided) ==
    IF session.csrf_token = 0 \/ provided = 0 \/ session.csrf_token # provided
    THEN Err(403) ELSE [val |-> None]

\* _PLAYER_ALLOWED of models.py
PLAYER_ALLOWED ==
    {"A", "B", "C", "D", "E", "F", "G", "H", "I", "J", "K", "L", "M", "N", "O", "P", "Q",
     "R", "S", "T", "U", "V", "W", "X", "Y", "Z", "a", "b", "c", "d", "e", "f", "g", "h",
     "i", "j", "k", "l", "m", "n", "o", "p", "q", "r", "s", "t", "u", "v", "w", "x", "y",
     "z", "0", "1", "2", "3", "4", "5", "6", "7", "8", "9", "_"}

\* PlayerActionRequest: the name of a payload, a sequence of characters
PlayerActionRequest(name) ==
    IF Len(name) < 3 \/ Len(name) > 16 THEN Err(422)
    ELSE IF \E i \in 1..Len(name) : name[i] \notin PLAYER_ALLOWED THEN Err(422)
    ELSE [val |-> name]

\* ------------------------------------------------------ admin API: inputs
MaxTokens == 2
MaxPosts == 2

PlayerNames == {<<"A", "s", "h">>, <<"a", "!", "b">>, <<"a", "b">>}
\* the cookie of a request: none, or one the server signed
Cookies == issued \cup {NoSession}
\* the X-CSRF-Token header of a request: absent, or a token-shaped string
Headers == 0..MaxTokens

InitAdmin ==
    /\ pc = "admin"
    /\ issued = {}
    /\ token_seq = 0
    /\ retired = {}
    /\ resp = Pending
    /\ history_limit = MaxHistory
    /\ records = <<>> /\ jobq = <<>> /\ next_id = 1
    /\ worker = [at |-> "get"] /\ caller = [at |-> "idle"] /\ reply = Pending
    /\ CodecIdle /\ XfIdle /\ CompIdle /\ GramIdle /\ RegionIdle /\ SectionIdle

\* the response goes out: a session that is not empty is signed into it
Respond(req, session, provided, after, code) ==
    /\ resp' = [req |-> req, session |-> session, provided |-> provided, code |-> code]
    /\ issued' = IF after = NoSession THEN issued ELSE issued \cup {after}

\* enqueue_job: jobs.enqueue(action, func)
enqueue_job(action, fn) ==
    /\ records' = evict(Append(records, JobRecord(next_id, action)), history_limit)
    /\ jobq' = Append(jobq, [id |-> next_id, fn |-> fn])
    /\ next_id' = next_id + 1

\* GET /login: login_page
LoginPage ==
    /\ pc = "admin"
    /\ \E session \in Cookies :
         IF ~is_authenticated(session)
         THEN /\ session.csrf_token = 0 => token_seq < MaxTokens
              /\ Respond("login_page", session, 0,
                         get_csrf_token(session, token_seq + 1), 200)
              /\ token_seq' = IF session.csrf_token = 0 THEN token_seq + 1 ELSE token_seq
         ELSE /\ Respond("login_page", session, 0, session, 303)
              /\ UNCHANGED token_seq
    /\ UNCHANGED <<pc, retired, jobVars,
                   codecVars, xfVars, compVars, gramVars, regionVars, sectionVars>>

\* POST /login: login_submit
LoginSubmit ==
    /\ pc = "admin"
    /\ \E session \in Cookies, password_ok \in BOOLEAN :
         IF password_ok
         THEN /\ token_seq < MaxTokens
              /\ Respond("login", session, 0, login(session, token_seq + 1), 303)
              /\ token_seq' = token_seq + 1
              /\ retired' = retired \cup ({session.csrf_token} \ {0})
         ELSE /\ session.csrf_token = 0 => token_seq < MaxTokens
              /\ Respond("login", session, 0, get_csrf_token(session, token_seq + 1), 401)
              /\ token_seq' = IF session.csrf_token = 0 THEN token_seq + 1 ELSE token_seq
              /\ UNCHANGED retired
    /\ UNCHANGED <<pc, jobVars,
                   codecVars, xfVars, compVars, gramVars, regionVars, sectionVars>>

\* POST /logout: logout
Logout ==
    /\ pc = "admin"
    /\ \E session \in Cookies, provided \in Headers :
         IF IsErr(require_login(session))
         THEN Respond("logout", session, provided, session, 401) /\ UNCHANGED retired
         ELSE IF IsErr(verify_csrf(session, provided))
         THEN Respond("logout", session, provided, session, 403) /\ UNCHANGED retired
         ELSE /\ Respond("logout", session, provided, logout(session), 200)
              /\ retired' = retired \cup {session.csrf_token}
    /\ UNCHANGED <<pc, token_seq, jobVars,
                   codecVars, xfVars, compVars, gramVars, regionVars, sectionVars>>

\* GET /api/status, /api/logs, /api/whitelist, /api/jobs, /api/jobs/{id}
ApiGet ==
    /\ pc = "admin"
    /\ \E session \in Cookies :
         IF IsErr(require_login(session))
         THEN Respond("api_get", session, 0, session, 401)
         ELSE Respond("api_get", session, 0, session, 200)
    /\ UNCHANGED <<pc, token_seq, retired, jobVars,
                   codecVars, xfVars, compVars, gramVars, regionVars, sectionVars>>

\* POST /api/players/add, remove, op, deop and /api/onboard: the Depends of
\* the handler, then its payload parameter, then its body
ApiPlayerPost ==
    /\ pc = "admin"
    /\ \E session \in Cookies, provided \in Headers, name \in PlayerNames :
         IF IsErr(require_login(session))
         THEN /\ Respond("api_player", session, provided, session, 401)
              /\ UNCHANGED <<records, jobq, next_id>>
         ELSE IF IsErr(PlayerActionRequest(name))
         THEN /\ Respond("api_player", session, provided, session, 422)
              /\ UNCHANGED <<records, jobq, next_id>>
         ELSE IF IsErr(verify_csrf(session, provided))
         THEN /\ Respond("api_player", session, provided, session, 403)
              /\ UNCHANGED <<records, jobq, next_id>>
         ELSE /\ next_id <= MaxPosts
              /\ Respond("api_player", session, provided, session, 200)
              /\ enqueue_job("player.add",
                             [kind |-> "returns", stdout |-> Str("added"), stderr |-> Str("")])
    /\ UNCHANGED <<pc, token_seq, retired, history_limit, worker, caller, reply,
                   codecVars, xfVars, compVars, gramVars, regionVars, sectionVars>>

\* POST /api/actions/start, stop, restart, backup
ApiActionPost ==
    /\ pc = "admin"
    /\ \E session \in Cookies, provided \in Headers :
         IF IsErr(require_login(session))
         THEN /\ Respond("api_action", session, provided, session, 401)
              /\ UNCHANGED <<records, jobq, next_id>>
         ELSE IF IsErr(verify_csrf(session, provided))
         THEN /\ Respond("api_action", session, provided, session, 403)
              /\ UNCHANGED <<records, jobq, next_id>>
         ELSE /\ next_id <= MaxPosts
              /\ Respond("api_action", session, provided, session, 200)
              /\ enqueue_job("server.backup",
                             [kind |-> "returns", stdout |-> Str("backup ok"), stderr |-> Str("")])
    /\ UNCHANGED <<pc, token_seq, retired, history_limit, worker, caller, reply,
                   codecVars, xfVars, compVars, gramVars, regionVars, sectionVars>>

NextAdmin == LoginPage \/ LoginSubmit \/ Logout \/ ApiGet \/ ApiPlayerPost \/ ApiActionPost

SpecAdmin == InitAdmin /\ [][NextAdmin]_vars

\* ------------------------------------------------------ admin API: claims
\* the step answers a request
Answered == resp' # Pending /\ (resp' # resp \/ next_id' # next_id)
IsApi(r) == r.req \in {"api_get", "api_player", "api_action"}
StateChanging(r) == r.req \in {"api_player", "api_action"}
TokenMatches(r) == r.session.csrf_token # 0 /\ r.provided = r.session.csrf_token

\* a job is enqueued only behind an authenticated session and a matching token
EnqueueGated ==
    next_id' # next_id =>
        /\ resp'.code = 200 /\ StateChanging(resp')
        /\ resp'.session.authenticated /\ TokenMatches(resp')
\* an unauthenticated API request is answered 401 and enqueues nothing
Answers401 ==
    (Answered /\ IsApi(resp') /\ ~resp'.session.authenticated) =>
        resp'.code = 401 /\ next_id' = next_id
\* an authenticated state-changing request without a matching token is
\* answered 403 and enqueues nothing
Answers403 ==
    (Answered /\ StateChanging(resp') /\ resp'.session.authenticated /\ ~TokenMatches(resp')) =>
        resp'.code = 403 /\ next_id' = next_id
\* a token of a session that was logged out or logged in again is not accepted
RetiredRejected ==
    (Answered /\ resp'.req \in {"api_player", "api_action", "logout"}
        /\ resp'.provided \in retired) =>
        resp'.code # 200

\* C26: admin API gate.  Over any sequence of login, logout and API requests
\* a job is enqueued only by a request whose session is authenticated and
\* whose X-CSRF-Token header equals the CSRF token of that session; an
\* unauthenticated API request is answered 401 and an authenticated
\* state-changing request without a matching token 403, both without
\* enqueuing a job; a token issued before a logout or a new login is no
\* longer accepted.
AdminGate == [][EnqueueGated /\ Answers401 /\ Answers403 /\ RetiredRejected]_vars

EnqueueGatedAlways == [][EnqueueGated]_vars
Answers401Always == [][Answers401]_vars
Answers403Always == [][Answers403]_vars
RetiredRejectedAlways == [][RetiredRejected]_vars

\* ------------------------------------------- compiler: geometry of a unit
\* the errors _build_structure raises from assert_in_bounds and from the
\* orientation test
GeometricErrors ==
    {"block out of bounds", "jigsaw out of bounds", "block_entity out of bounds",
     "invalid jigsaw orientation"}

\* the positions of a plan that _build_structure transforms and asserts
BuiltPositions(plan) ==
    {plan.blocks[n].pos : n \in 1..Len(plan.blocks)}
    \cup {plan.jigsaws[n].pos : n \in 1..Len(plan.jigsaws)}
    \cup {plan.block_entities[n].pos : n \in 1..Len(plan.block_entities)}
    \cup {plan.entities[n].block_pos : n \in 1..Len(plan.entities)}

GeometryHolds(plan, rot, mirror) ==
    /\ BuiltPositions(plan) \subseteq Cells(plan.size)
    /\ \A p \in Cells(plan.size) :
          assert_in_bounds(transform_pos(p, plan.size, rot, mirror), rotate_size(plan.size, rot))
    /\ \A p, q \in Cells(plan.size) :
          p # q => transform_pos(p, plan.size, rot, mirror) # transform_pos(q, plan.size, rot, mirror)
    /\ \A n \in 1..Len(plan.jigsaws) : plan.jigsaws[n].orientation \in VALID_JIGSAW_ORIENTATIONS
    /\ \A orientation \in VALID_JIGSAW_ORIENTATIONS :
          transform_orientation(orientation, rot, mirror) \in VALID_JIGSAW_ORIENTATIONS

\* C27: shape validation is sufficient for the geometric checks of a build.
\* For every plan that passed validate_plan_shape and every rot and mirror,
\* transform_pos maps each in-bounds source position into the rotated size,
\* maps distinct positions to distinct positions, and every valid jigsaw
\* orientation to a valid one; _build_structure never raises an out-of-bounds
\* or invalid-orientation error.
ShapeSuffices ==
    /\ pc = "unit" =>
          \A plan \in {plans[pi]} : \A rot \in Rotations, mirror \in Mirrors :
              GeometryHolds(plan, rot, mirror)
    /\ pc \in {"plan", "unit", "exit"} =>
          \A k \in 1..Len(report) :
              report[k][1] = "error" => report[k][2] \notin GeometricErrors

\* a unit built under a quarter turn and a mirror: a block away from the
\* origin of a box that is not square, a jigsaw whose orientation turned
ShapeSufficesWitness ==
    /\ pc = "unit" /\ bi = 2 /\ built # Pending
    /\ argv.rot = 90 /\ argv.mirror = "left_right"
    /\ plans[pi].size = <<2, 1, 3>>
    /\ \E n \in 1..Len(plans[pi].blocks) : plans[pi].blocks[n].pos = <<1, 0, 2>>
    /\ \E n \in 1..Len(plans[pi].jigsaws) :
          transform_orientation(plans[pi].jigsaws[n].orientation, 90, "left_right")
              # plans[pi].jigsaws[n].orientation
    /\ built.size = <<3, 1, 2>>

====
